---- MODULE Spec2Model ----
(***************************************************************************)
(* A model of svelte-proxy-lsp: the ProxyServer orchestrator that sits     *)
(* between one editor connection and two backend language servers (the     *)
(* Svelte server and the TypeScript server), the documentParser helpers    *)
(* it routes with, and the LSPServerProcess gateway in front of each       *)
(* backend.                                                                *)
(*                                                                         *)
(* Strings are modelled as sequences of one-character strings so that      *)
(* endsWith, indexOf, split and the tag regular expressions are computed   *)
(* character by character, as the JavaScript does.                         *)
(***************************************************************************)
EXTENDS Integers, Sequences, FiniteSets, TLC

(***************************************************************************)
(* Bounds of the model.                                                    *)
(***************************************************************************)
\* lifecycle events (open / change / close handler calls) per behaviour
MaxEvents == 2
\* positions carried by one selectionRange request
MaxPositions == 2

(***************************************************************************)
(* String helpers (JavaScript built-ins used by the source).               *)
(***************************************************************************)
Min(S) == CHOOSE x \in S : \A y \in S : x <= y

Max(S) == CHOOSE x \in S : \A y \in S : x >= y

\* String.prototype.endsWith
EndsWith(s, suffix) ==
    /\ Len(s) >= Len(suffix)
    /\ SubSeq(s, Len(s) - Len(suffix) + 1, Len(s)) = suffix

\* String.prototype.indexOf, 0-based; -1 when absent
IndexOf(hay, needle) ==
    LET S == {p \in 0..(Len(hay) - Len(needle)) :
                 SubSeq(hay, p + 1, p + Len(needle)) = needle}
    IN IF S = {} THEN -1 ELSE Min(S)

\* the 1-based indices of the newline characters of s
NewlinesOf(s) == {i \in 1..Len(s) : s[i] = "\n"}

\* s.split('\n'): only the number of lines and the length of the last line
\* are used by the source
SplitLineCount(s) == Cardinality(NewlinesOf(s)) + 1

\* variant: the length of the whole string, whatever its lines
SplitLastLineLenOfAll(s) == Len(s)

SplitLastLineLen(s) ==
    IF NewlinesOf(s) = {} THEN Len(s) ELSE Len(s) - Max(NewlinesOf(s))

\* \s of the regular expressions
IsSpace(c) == c \in {" ", "\n", "\t", "\r"}

\* case folding of the i flag, for the letters of the two tag names
Lower(c) ==
    CASE c = "S" -> "s" [] c = "C" -> "c" [] c = "R" -> "r"
      [] c = "I" -> "i" [] c = "P" -> "p" [] c = "T" -> "t"
      [] c = "Y" -> "y" [] c = "L" -> "l" [] c = "E" -> "e"
      [] OTHER -> c

\* the literal lit occurs in text at 1-based index i (exact case)
MatchesAt(text, i, lit) ==
    /\ i >= 1
    /\ i + Len(lit) - 1 <= Len(text)
    /\ \A k \in 1..Len(lit) : text[i + k - 1] = lit[k]

\* the literal lit occurs in text at 1-based index i, ignoring case
MatchesAtCI(text, i, lit) ==
    /\ i >= 1
    /\ i + Len(lit) - 1 <= Len(text)
    /\ \A k \in 1..Len(lit) : Lower(text[i + k - 1]) = lit[k]

\* first index >= from where lit occurs ignoring case, 0 when there is none
FindCI(text, from, lit) ==
    LET S == {p \in from..Len(text) : MatchesAtCI(text, p, lit)}
    IN IF S = {} THEN 0 ELSE Min(S)

\* first index >= from holding a character that is not white space
\* (Len(text) + 1 when the rest is white space): the greedy \s* and \s+
SkipSpaces(text, from) ==
    LET S == {p \in from..Len(text) : ~IsSpace(text[p])}
    IN IF S = {} THEN Len(text) + 1 ELSE Min(S)

(***************************************************************************)
(* documentParser: regions, parseDocument, getRegionAtPosition, routing.   *)
(***************************************************************************)
\* the JavaScript value undefined (an absent optional field or parameter)
Undefined == [type |-> "undefined"]

Quotes == {"\"", "'"}

ScriptName == <<"s", "c", "r", "i", "p", "t">>

StyleName == <<"s", "t", "y", "l", "e">>

ContextLit == <<"c", "o", "n", "t", "e", "x", "t">>

ModuleLit == <<"m", "o", "d", "u", "l", "e">>

LangLit == <<"l", "a", "n", "g">>

JavascriptLang == <<"j", "a", "v", "a", "s", "c", "r", "i", "p", "t">>

CssLang == <<"c", "s", "s">>

NoMatch == [found |-> FALSE]

OpenTag(name) == <<"<">> \o name

CloseTag(name) == <<"<", "/">> \o name \o <<">">>

\* first index >= k holding ">", 0 when there is none: the lazy [^>]*? up to ">"
FirstGt(text, k) ==
    IF \E p \in k..Len(text) : text[p] = ">"
    THEN Min({p \in k..Len(text) : text[p] = ">"})
    ELSE 0

\* (?:\s+([^>]*?))?> after the tag name, which ends before index j: the index
\* of the ">" that ends the opening tag, 0 when the opening tag does not match
OpenTagEnd(text, j) ==
    IF j > Len(text) THEN 0
    ELSE IF text[j] = ">" THEN j
    ELSE IF IsSpace(text[j]) THEN FirstGt(text, SkipSpaces(text, j))
    ELSE 0

\* group 1: the text between the white space after the name and the ">" at g
\* (undefined, defaulted to '', when the name is directly followed by ">")
AttributesOf(text, j, g) ==
    IF text[j] = ">" THEN <<>> ELSE SubSeq(text, SkipSpaces(text, j), g - 1)

\* the match, given the ">" of the opening tag at g and the closing tag at c
\* (0 when there is none)
MatchOf(text, i, name, g, c) ==
    IF c = 0 THEN NoMatch
    ELSE [found |-> TRUE,
          index |-> i - 1,
          full |-> SubSeq(text, i, c + Len(name) + 2),
          attributes |-> AttributesOf(text, i + Len(name) + 1, g),
          content |-> SubSeq(text, g + 1, c - 1),
          lastIndex |-> c + Len(name) + 2]

\* ([\s\S]*?)<\/name>: the first closing tag after the opening tag that ends at g
TagAfterOpen(text, i, name, g) ==
    IF g = 0 THEN NoMatch
    ELSE MatchOf(text, i, name, g, FindCI(text, g + 1, CloseTag(name)))

\* one attempt of /<name(?:\s+([^>]*?))?>([\s\S]*?)<\/name>/i at 1-based index i
TagMatchAt(text, i, name) ==
    IF ~MatchesAtCI(text, i, OpenTag(name)) THEN NoMatch
    ELSE TagAfterOpen(text, i, name, OpenTagEnd(text, i + Len(name) + 1))

RECURSIVE TagScan(_, _, _)
\* the attempt m at index i, or else the attempts at the indices after i
TagOrNext(text, i, name, m) ==
    IF m.found THEN m ELSE TagScan(text, i + 1, name)

\* the leftmost match at a 1-based index >= i
TagScan(text, i, name) ==
    IF i > Len(text) THEN NoMatch
    ELSE TagOrNext(text, i, name, TagMatchAt(text, i, name))

\* regex.exec(content) with the g flag: leftmost match at offset >= lastIndex
TagExec(text, lastIndex, name) == TagScan(text, lastIndex + 1, name)

\* \s*=\s*["'] after an attribute name that ends before index p: the index of
\* the opening quote, 0 when it does not match
QuoteAfterEquals(attrs, a) ==
    IF a <= Len(attrs) /\ attrs[a] = "="
       /\ SkipSpaces(attrs, a + 1) <= Len(attrs)
       /\ attrs[SkipSpaces(attrs, a + 1)] \in Quotes
    THEN SkipSpaces(attrs, a + 1)
    ELSE 0

\* module["'] after the opening quote at b
ModuleQuoted(attrs, b) ==
    /\ b # 0
    /\ MatchesAt(attrs, b + 1, ModuleLit)
    /\ b + Len(ModuleLit) + 1 <= Len(attrs)
    /\ attrs[b + Len(ModuleLit) + 1] \in Quotes

\* /context\s*=\s*["']module["']/.test(attributes)
IsModuleAttr(attrs) ==
    \E p \in 1..Len(attrs) :
        /\ MatchesAt(attrs, p, ContextLit)
        /\ ModuleQuoted(attrs,
                        QuoteAfterEquals(attrs, SkipSpaces(attrs, p + Len(ContextLit))))

\* first index > b holding a quote, 0 when there is none
NextQuote(attrs, b) ==
    IF \E q \in (b + 1)..Len(attrs) : attrs[q] \in Quotes
    THEN Min({q \in (b + 1)..Len(attrs) : attrs[q] \in Quotes})
    ELSE 0

\* ([^"']+)["'] after the opening quote at b, closed by the quote at e
LangGroup(attrs, b, e) ==
    IF b # 0 /\ e > b + 1
    THEN [found |-> TRUE, group |-> SubSeq(attrs, b + 1, e - 1)]
    ELSE NoMatch

LangQuoted(attrs, b) == LangGroup(attrs, b, NextQuote(attrs, b))

\* one attempt of /lang\s*=\s*["']([^"']+)["']/ at 1-based index p
LangMatchAt(attrs, p) ==
    IF ~MatchesAt(attrs, p, LangLit) THEN NoMatch
    ELSE LangQuoted(attrs, QuoteAfterEquals(attrs, SkipSpaces(attrs, p + Len(LangLit))))

RECURSIVE LangScan(_, _, _)
LangOrNext(attrs, p, dflt, m) ==
    IF m.found THEN m.group ELSE LangScan(attrs, p + 1, dflt)

\* the group of the leftmost match at an index >= p, dflt when there is none
LangScan(attrs, p, dflt) ==
    IF p > Len(attrs) THEN dflt
    ELSE LangOrNext(attrs, p, dflt, LangMatchAt(attrs, p))

\* langMatch ? langMatch[1] : dflt
LangOf(attrs, dflt) == LangScan(attrs, 1, dflt)

Position(l, c) == [line |-> l, character |-> c]

PositionAtEndOf(prefix) ==
    Position(SplitLineCount(prefix) - 1, SplitLastLineLen(prefix))

offsetToPosition(text, offset) == PositionAtEndOf(SubSeq(text, 1, offset))

\* startOffset + fullMatch.indexOf(scriptContent)
InnerOffset(m) == m.index + IndexOf(m.full, m.content)

\* the region pushed for one script match (body of the while loop)
ScriptRegionOf(content, m) ==
    [type |-> "script",
     start |-> offsetToPosition(content, InnerOffset(m)),
     end |-> offsetToPosition(content, InnerOffset(m) + Len(m.content)),
     lang |-> LangOf(m.attributes, JavascriptLang),
     content |-> m.content,
     isModule |-> IsModuleAttr(m.attributes)]

RECURSIVE ScriptRegions(_, _)
\* one turn of the while loop, scriptMatch being m
ScriptRegionsFrom(content, m) ==
    IF ~m.found THEN <<>>
    ELSE <<ScriptRegionOf(content, m)>> \o ScriptRegions(content, m.lastIndex)

\* the while loop over scriptRegex.exec(content)
ScriptRegions(content, lastIndex) ==
    ScriptRegionsFrom(content, TagExec(content, lastIndex, ScriptName))

StyleRegionOf(content, m) ==
    IF ~m.found THEN <<>>
    ELSE << [type |-> "style",
             start |-> offsetToPosition(content, InnerOffset(m)),
             end |-> offsetToPosition(content, InnerOffset(m) + Len(m.content)),
             lang |-> LangOf(m.attributes, CssLang),
             content |-> m.content] >>

\* the single styleRegex.exec(content)
StyleRegions(content) == StyleRegionOf(content, TagExec(content, 0, StyleName))

\* variant: a field that is already set is kept
AssignRegionKeepFirst(result, region) ==
    IF region.type = "script"
    THEN (IF region.isModule
          THEN (IF result.moduleScript = Undefined
                THEN [result EXCEPT !.moduleScript = region] ELSE result)
          ELSE (IF result.script = Undefined
                THEN [result EXCEPT !.script = region] ELSE result))
    ELSE (IF region.type = "style"
          THEN [result EXCEPT !.style = region]
          ELSE result)

\* the final loop "for (const region of regions)": later regions overwrite
\* one turn of the loop: the region is stored under its kind
AssignRegion(result, region) ==
    IF region.type = "script"
    THEN (IF region.isModule
          THEN [result EXCEPT !.moduleScript = region]
          ELSE [result EXCEPT !.script = region])
    ELSE (IF region.type = "style"
          THEN [result EXCEPT !.style = region]
          ELSE result)

RECURSIVE AssignRegions(_, _)
AssignRegions(result, regions) ==
    IF regions = <<>> THEN result
    ELSE AssignRegions(AssignRegion(result, Head(regions)), Tail(regions))

parseDocument(uri, content, version) ==
    LET regions == ScriptRegions(content, 0) \o StyleRegions(content)
        templateRegion ==
            [type |-> "template",
             start |-> Position(0, 0),
             end |-> Position(SplitLineCount(content) - 1, SplitLastLineLen(content)),
             content |-> content]
        result == [template |-> templateRegion,
                   uri |-> uri,
                   version |-> version,
                   script |-> Undefined,
                   moduleScript |-> Undefined,
                   style |-> Undefined]
    IN AssignRegions(result, regions)

isPositionInRegion(position, region) ==
    IF position.line < region.start.line \/ position.line > region.end.line
    THEN FALSE
    ELSE IF position.line = region.start.line
            /\ position.character < region.start.character
    THEN FALSE
    ELSE IF position.line = region.end.line
            /\ position.character > region.end.character
    THEN FALSE
    ELSE TRUE

getRegionAtPosition(parsed, position) ==
    IF parsed.script # Undefined /\ isPositionInRegion(position, parsed.script)
    THEN parsed.script
    ELSE IF parsed.moduleScript # Undefined
            /\ isPositionInRegion(position, parsed.moduleScript)
    THEN parsed.moduleScript
    ELSE IF parsed.style # Undefined /\ isPositionInRegion(position, parsed.style)
    THEN parsed.style
    ELSE parsed.template

DotSvelte == <<".", "s", "v", "e", "l", "t", "e">>

DotTs == <<".", "t", "s">>

DotJs == <<".", "j", "s">>

DotTsx == <<".", "t", "s", "x">>

DotJsx == <<".", "j", "s", "x">>

isSvelteFile(uri) == EndsWith(uri, DotSvelte)

\* variant: region-based routing, the template backend is skipped inside a script
shouldUseSvelteServerByRegion(parsed, position) ==
    /\ isSvelteFile(parsed.uri)
    /\ \/ position = Undefined
       \/ getRegionAtPosition(parsed, position).type # "script"

shouldUseSvelteServer(parsed, position) == isSvelteFile(parsed.uri)

\* variant: region-based routing, the scripting backend serves the script
\* region of a composite document
shouldUseTypeScriptServerByRegion(parsed, position) ==
    IF isSvelteFile(parsed.uri)
    THEN /\ position # Undefined
         /\ getRegionAtPosition(parsed, position).type = "script"
    ELSE \/ EndsWith(parsed.uri, DotTs)
         \/ EndsWith(parsed.uri, DotJs)
         \/ EndsWith(parsed.uri, DotTsx)
         \/ EndsWith(parsed.uri, DotJsx)

shouldUseTypeScriptServer(parsed, position) ==
    /\ ~isSvelteFile(parsed.uri)
    /\ \/ EndsWith(parsed.uri, DotTs)
       \/ EndsWith(parsed.uri, DotJs)
       \/ EndsWith(parsed.uri, DotTsx)
       \/ EndsWith(parsed.uri, DotJsx)

(***************************************************************************)
(* The documents the editor works with (inputs from the environment).      *)
(***************************************************************************)
SvelteUri == <<"a", ".", "s", "v", "e", "l", "t", "e">>

TsUri == <<"b", ".", "t", "s">>

\* a document the editor may attach that is neither composite nor .ts/.js/.tsx/.jsx
OtherUri == <<"c", ".", "m", "j", "s">>

Uris == {SvelteUri, TsUri, OtherUri}

\* "<script>a</script>"
ScriptText ==
    <<"<", "s", "c", "r", "i", "p", "t", ">", "a",
      "<", "/", "s", "c", "r", "i", "p", "t", ">">>

\* "b"
PlainText == <<"b">>

Texts == {ScriptText, PlainText}

\* the TextDocument handed to the lifecycle handlers
TextDocument(uri, version, text) == [uri |-> uri, version |-> version, text |-> text]

(***************************************************************************)
(* State.                                                                  *)
(***************************************************************************)
VARIABLES
    listening,        \* ProxyServer.start() has run: connection.listen()
    gateway,          \* per backend: the LSPServerProcess fields
    documents,        \* ProxyServer.documents (TextDocuments): uri -> TextDocument
    parsedDocuments,  \* ProxyServer.parsedDocuments: uri -> reference into heap, 0 = no entry
    heap,             \* the ParsedDocument objects ever created, by reference
    editorEvents,     \* history: the lifecycle events in the order the editor issued them
    notifLog,         \* per backend: the notifications written to its connection, in order
    request,          \* the feature request in progress, or the one whose response is due
    routing,          \* the routing predicates applied to one document (SpecRouting)
    dedup,            \* deduplicateCompletions applied to one list (SpecDedup)
    parsing,          \* parseDocument and getRegionAtPosition on one text (SpecParse)
    lspServer,        \* one LSPServerProcess, its child and its connection (SpecGateway)
    forwarding,       \* the diagnostics path from the backends to the editor (SpecDiagnostics)
    configuring,      \* the configuration notifications of the editor (SpecConfiguration)
    handshake,        \* the initialize handshake of the proxy (SpecHandshake)
    pool              \* the feature requests in progress at the same time (SpecPending)

vars == <<listening, gateway, documents, parsedDocuments, heap,
          editorEvents, notifLog, request, routing, dedup,
          parsing, lspServer, forwarding,
          configuring, handshake, pool>>

\* the variables of the proxy as a whole
proxyVars == <<listening, gateway, documents, parsedDocuments, heap,
               editorEvents, notifLog, request>>

\* the variables of the specifications of single units
unitVars == <<routing, dedup, parsing, lspServer, forwarding,
          configuring, handshake, pool>>

Svelte == "Svelte"

TypeScript == "TypeScript"

Backends == {Svelte, TypeScript}

Null == [type |-> "null"]

NullRef == 0

\* LSPServerProcess after its constructor
NewGateway == [childProcess |-> Null, connection |-> Null, isInitialized |-> FALSE]

IdleRequest == [pc |-> "idle"]

\* a handler's return and the sending of its response are one chain of
\* promise continuations: no other callback (an editor message, a backend
\* response, a child exit) runs between the two
NoResponseDue == request.pc # "done"

\* the proxy after its constructor, before start()
InitProxy ==
    /\ listening = FALSE
    /\ gateway = [b \in Backends |-> NewGateway]
    /\ documents = [u \in Uris |-> Undefined]
    /\ parsedDocuments = [u \in Uris |-> NullRef]
    /\ heap = <<>>
    /\ editorEvents = <<>>
    /\ notifLog = [b \in Backends |-> <<>>]
    /\ request = IdleRequest

\* the value of a variable that belongs to another specification
Off == [phase |-> "off"]

Init ==
    /\ InitProxy
    /\ routing = [phase |-> "off"]
    /\ dedup = [phase |-> "off"]
    /\ parsing = Off
    /\ lspServer = Off
    /\ forwarding = Off
    /\ configuring = Off
    /\ handshake = Off
    /\ pool = Off

(***************************************************************************)
(* LSPServerProcess (the gateway of one backend).                          *)
(***************************************************************************)
\* start(): spawn the child and create the connection
GatewayStart(g) ==
    [g EXCEPT !.childProcess = [type |-> "process"],
              !.connection = [type |-> "connection"]]

\* cleanup(): release the connection and the child, clear isInitialized
GatewayCleanup(g) ==
    [g EXCEPT !.childProcess = Null, !.connection = Null, !.isInitialized = FALSE]

\* the guard of sendRequest: "ok", or the error it throws
SendRequestCheck(g, method) ==
    IF g.connection = Null THEN "not started"
    ELSE IF ~g.isInitialized /\ method # "initialize" THEN "not initialized"
    ELSE "ok"

\* variant: a notification that overtakes the ones written before it
SendNotificationFront(g, log, notification) ==
    IF g.connection = Null THEN log ELSE <<notification>> \o log

\* sendNotification: a no-op when not started, else written to the connection
SendNotification(g, log, notification) ==
    IF g.connection = Null THEN log ELSE Append(log, notification)

\* ProxyServer.start(): start both gateways, then listen to the editor
ProxyStart ==
    /\ ~listening
    /\ \A b \in Backends : gateway[b].childProcess = Null
    /\ gateway' = [b \in Backends |-> GatewayStart(gateway[b])]
    /\ listening' = TRUE
    /\ UNCHANGED <<unitVars, documents, parsedDocuments, heap, editorEvents, notifLog,
                   request>>

\* LSPServerProcess.initialize() of backend b, from the initialize request to
\* its response: the initialized notification is sent, isInitialized is set
GatewayInitialize(b) ==
    /\ listening
    /\ NoResponseDue
    /\ gateway[b].connection # Null
    /\ ~gateway[b].isInitialized
    /\ gateway' = [gateway EXCEPT ![b].isInitialized = TRUE]
    /\ UNCHANGED <<unitVars, listening, documents, parsedDocuments, heap, editorEvents,
                   notifLog, request>>

\* the child process of backend b exits (crash): the exit handler runs cleanup()
GatewayExit(b) ==
    /\ gateway[b].childProcess # Null
    /\ NoResponseDue
    /\ gateway' = [gateway EXCEPT ![b] = GatewayCleanup(gateway[b])]
    /\ UNCHANGED <<unitVars, listening, documents, parsedDocuments, heap, editorEvents,
                   notifLog, request>>

(***************************************************************************)
(* ProxyServer: document lifecycle.                                        *)
(***************************************************************************)
\* parseDocument on every document the editor can send, computed once
ParsedTable ==
    [d \in Uris \X Texts \X (1..(MaxEvents + 1)) |-> parseDocument(d[1], d[2], d[3])]

\* variant: a change that rewrites the cached object in place
updateParsedDocumentInPlace(h, map, document) ==
    LET parsed == ParsedTable[document.uri, document.text, document.version]
    IN IF map[document.uri] # NullRef
       THEN [heap |-> [h EXCEPT ![map[document.uri]] = parsed],
             parsedDocuments |-> map]
       ELSE [heap |-> Append(h, parsed),
             parsedDocuments |-> [map EXCEPT ![document.uri] = Len(h) + 1]]

\* updateParsedDocument: parse, then this.parsedDocuments.set(uri, parsed).
\* parseDocument returns a new object; the map entry is made to refer to it.
updateParsedDocument(h, map, document) ==
    LET parsed == ParsedTable[document.uri, document.text, document.version]
    IN [heap |-> Append(h, parsed),
        parsedDocuments |-> [map EXCEPT ![document.uri] = Len(h) + 1]]

\* variant: a close that leaves the entry in the map
DeleteParsedNoop(map, uri) == map

\* this.parsedDocuments.delete(uri)
DeleteParsed(map, uri) == [map EXCEPT ![uri] = NullRef]

\* the endsWith chain of syncDocumentOpen / syncDocumentChange / onDidCloseDocument
IsScriptUri(uri) ==
    \/ EndsWith(uri, DotTs)
    \/ EndsWith(uri, DotJs)
    \/ EndsWith(uri, DotTsx)
    \/ EndsWith(uri, DotJsx)

\* variant: composite documents are synchronised to both backends
SyncTargetsBoth(uri) ==
    IF isSvelteFile(uri) THEN {Svelte, TypeScript}
    ELSE IF IsScriptUri(uri) THEN {TypeScript}
    ELSE {}

\* the gateways a lifecycle notification of this uri is handed to
SyncTargets(uri) ==
    IF isSvelteFile(uri) THEN {Svelte}
    ELSE IF IsScriptUri(uri) THEN {TypeScript}
    ELSE {}

\* the notification logs after handing one notification to the targets of its uri
SyncSend(gw, logs, notification) ==
    [b \in Backends |->
        IF b \in SyncTargets(notification.uri)
        THEN SendNotification(gw[b], logs[b], notification)
        ELSE logs[b]]

Notification(method, document, seq) ==
    [method |-> method, uri |-> document.uri, version |-> document.version,
     text |-> document.text, seq |-> seq]

CloseNotification(document, seq) ==
    [method |-> "textDocument/didClose", uri |-> document.uri, seq |-> seq]

LifecycleEvent(kind, document) ==
    [kind |-> kind, uri |-> document.uri, version |-> document.version,
     text |-> document.text]

\* syncDocumentOpen
syncDocumentOpen(gw, logs, document, seq) ==
    SyncSend(gw, logs, Notification("textDocument/didOpen", document, seq))

\* syncDocumentChange
syncDocumentChange(gw, logs, document, seq) ==
    SyncSend(gw, logs, Notification("textDocument/didChange", document, seq))

\* onDidOpenDocument: the editor opens a document that is not open
onDidOpenDocument(uri, text) ==
    LET document == TextDocument(uri, 1, text)
        upd == updateParsedDocument(heap, parsedDocuments, document)
    IN /\ listening
       /\ NoResponseDue
       /\ Len(editorEvents) < MaxEvents
       /\ documents[uri] = Undefined
       /\ documents' = [documents EXCEPT ![uri] = document]
       /\ heap' = upd.heap
       /\ parsedDocuments' = upd.parsedDocuments
       /\ editorEvents' = Append(editorEvents, LifecycleEvent("open", document))
       /\ notifLog' = syncDocumentOpen(gateway, notifLog, document, Len(editorEvents) + 1)
       /\ UNCHANGED <<unitVars, listening, gateway, request>>

\* onDidChangeDocument: TextDocuments fires it for an open document, with the
\* next version and the new text
onDidChangeDocument(uri, text) ==
    LET document == TextDocument(uri, documents[uri].version + 1, text)
        upd == updateParsedDocument(heap, parsedDocuments, document)
    IN /\ listening
       /\ NoResponseDue
       /\ Len(editorEvents) < MaxEvents
       /\ documents[uri] # Undefined
       /\ documents' = [documents EXCEPT ![uri] = document]
       /\ heap' = upd.heap
       /\ parsedDocuments' = upd.parsedDocuments
       /\ editorEvents' = Append(editorEvents, LifecycleEvent("change", document))
       /\ notifLog' = syncDocumentChange(gateway, notifLog, document, Len(editorEvents) + 1)
       /\ UNCHANGED <<unitVars, listening, gateway, request>>

\* onDidCloseDocument: TextDocuments fires it for an open document
onDidCloseDocument(uri) ==
    LET document == documents[uri]
    IN /\ listening
       /\ NoResponseDue
       /\ Len(editorEvents) < MaxEvents
       /\ documents[uri] # Undefined
       /\ documents' = [documents EXCEPT ![uri] = Undefined]
       /\ parsedDocuments' = DeleteParsed(parsedDocuments, uri)
       /\ editorEvents' = Append(editorEvents, LifecycleEvent("close", document))
       /\ notifLog' = SyncSend(gateway, notifLog,
                               CloseNotification(document, Len(editorEvents) + 1))
       /\ UNCHANGED <<unitVars, listening, gateway, heap, request>>

(***************************************************************************)
(* JavaScript values exchanged with the backends and the editor.           *)
(***************************************************************************)
Arr(items) == [type |-> "array", items |-> items]

Str(chars) == [type |-> "string", value |-> chars]

\* a rejected backend call (sendRequest threw, or the backend answered an error)
Reject == [type |-> "reject"]

IsArray(v) == v.type = "array"

\* JavaScript truthiness of the modelled values
Truthy(v) == v # Null /\ v # Undefined /\ v # Str(<<>>)

\* o.f, undefined when the property is absent
Field(o, f) == IF f \in DOMAIN o THEN o[f] ELSE Undefined

Digit(d) ==
    CASE d = 0 -> "0" [] d = 1 -> "1" [] d = 2 -> "2" [] d = 3 -> "3"
      [] d = 4 -> "4" [] d = 5 -> "5" [] d = 6 -> "6" [] d = 7 -> "7"
      [] d = 8 -> "8" [] d = 9 -> "9"

\* the decimal digits of a natural number, as a template literal prints it
RECURSIVE NumStr(_)
NumStr(n) == IF n < 10 THEN <<Digit(n)>> ELSE NumStr(n \div 10) \o <<Digit(n % 10)>>

UndefinedStr == <<"u", "n", "d", "e", "f", "i", "n", "e", "d">>

\* ${v} of a template literal, for a string, a number or undefined
Interpolate(v) ==
    IF v = Undefined THEN UndefinedStr
    ELSE IF v.type = "string" THEN v.value
    ELSE NumStr(v.value)

Num(n) == [type |-> "number", value |-> n]

\* Array.prototype.filter with the Set "seen": the items whose key did not
\* occur at a smaller index
RECURSIVE KeepFirst(_, _, _)
KeepFirst(items, keys, i) ==
    IF i > Len(items) THEN <<>>
    ELSE (IF \E j \in 1..(i - 1) : keys[j] = keys[i] THEN <<>> ELSE <<items[i]>>)
         \o KeepFirst(items, keys, i + 1)

\* variant: the detail is interpolated as it is, undefined included
CompletionKeyRawDetail(item) ==
    Interpolate(Field(item, "label")) \o <<":">>
    \o Interpolate(Field(item, "kind")) \o <<":">>
    \o Interpolate(Field(item, "detail"))

\* `${item.label}:${item.kind}:${item.detail || ""}`
CompletionKey(item) ==
    Interpolate(Field(item, "label")) \o <<":">>
    \o Interpolate(Field(item, "kind")) \o <<":">>
    \o (IF Truthy(Field(item, "detail")) THEN Field(item, "detail").value ELSE <<>>)

\* variant: the label alone is the key
deduplicateCompletionsByLabel(completions) ==
    KeepFirst(completions,
              [i \in 1..Len(completions) |-> Interpolate(Field(completions[i], "label"))], 1)

deduplicateCompletions(completions) ==
    KeepFirst(completions,
              [i \in 1..Len(completions) |-> CompletionKey(completions[i])], 1)

\* variant: the end of the range is part of the key
LocationKeyWithEnd(location) ==
    Interpolate(Field(location, "uri")) \o <<":">>
    \o NumStr(location.range.start.line) \o <<":">>
    \o NumStr(location.range.start.character) \o <<":">>
    \o NumStr(location.range.end.line) \o <<":">>
    \o NumStr(location.range.end.character)

\* `${location.uri}:${location.range.start.line}:${location.range.start.character}`
LocationKey(location) ==
    Interpolate(Field(location, "uri")) \o <<":">>
    \o NumStr(location.range.start.line) \o <<":">>
    \o NumStr(location.range.start.character)

\* the filter callback reads location.range.start: a TypeError when an item
\* has no range property
deduplicateLocations(locations) ==
    IF \E i \in 1..Len(locations) : Field(locations[i], "range") = Undefined
    THEN [threw |-> TRUE]
    ELSE [threw |-> FALSE,
          items |-> KeepFirst(locations,
                       [i \in 1..Len(locations) |-> LocationKey(locations[i])], 1)]

\* `${symbol.name}:${symbol.kind}:${location.uri}:${line}:${character}`
WorkspaceSymbolKey(symbol) ==
    Interpolate(Field(symbol, "name")) \o <<":">>
    \o Interpolate(Field(symbol, "kind")) \o <<":">>
    \o LocationKey(symbol.location)

deduplicateWorkspaceSymbols(symbols) ==
    KeepFirst(symbols,
              [i \in 1..Len(symbols) |-> WorkspaceSymbolKey(symbols[i])], 1)

(***************************************************************************)
(* What a backend may answer, per method (inputs from the environment).    *)
(***************************************************************************)
Range(sl, sc, el, ec) == [start |-> Position(sl, sc), end |-> Position(el, ec)]

LocA == [uri |-> Str(TsUri), range |-> Range(0, 0, 0, 1)]

\* same uri and start as LocA, another end
LocB == [uri |-> Str(TsUri), range |-> Range(0, 0, 0, 5)]

\* a LocationLink: the protocol's other answer to definition-like requests
LinkA == [targetUri |-> Str(TsUri), targetRange |-> Range(0, 0, 0, 1),
          targetSelectionRange |-> Range(0, 0, 0, 1)]

CompA == [type |-> "object", label |-> Str(<<"f", "o", "o">>), kind |-> Num(1)]

CompB == [type |-> "object", label |-> Str(<<"b", "a", "r">>), kind |-> Num(3),
          detail |-> Str(<<"d">>)]

\* CompA with an empty detail
CompAEmptyDetail == [type |-> "object", label |-> Str(<<"f", "o", "o">>), kind |-> Num(1),
                     detail |-> Str(<<>>)]

\* CompA as a backend resolves it
CompAResolved == [type |-> "object", label |-> Str(<<"f", "o", "o">>), kind |-> Num(1),
                  documentation |-> Str(<<"d", "o", "c">>)]

LensA == [type |-> "object", range |-> Range(0, 0, 0, 1)]

LensAResolved == [type |-> "object", range |-> Range(0, 0, 0, 1),
                  command |-> [type |-> "object", title |-> Str(<<"r">>)]]

SymA == [name |-> Str(<<"x">>), kind |-> Num(12), location |-> LocA]

SymB == [name |-> Str(<<"y">>), kind |-> Num(12), location |-> LocA]

\* the symbol of SymA as another backend reports it: same name, kind and
\* start, another end and a container name
SymAOther == [name |-> Str(<<"x">>), kind |-> Num(12), location |-> LocB,
              containerName |-> Str(<<"m">>)]

\* an item the proxy never looks into
Item(n) == [id |-> n]

ObjectResult(n) == [type |-> "object", id |-> n]

CompletionList(items) == [type |-> "object", isIncomplete |-> FALSE, items |-> items]

LocationMethods ==
    {"definition", "references", "typeDefinition", "implementation", "declaration"}

FirstWinsMethods == {"hover", "signatureHelp", "rename", "prepareRename"}

ConcatMethods == {"codeAction", "documentHighlight"}

FanOutMethods == {"documentSymbol", "codeLens", "foldingRange"}

ResolveMethods == {"completionResolve", "codeLensResolve"}

\* the per-document feature requests
DocumentMethods ==
    {"completion", "formatting", "selectionRange"}
    \cup LocationMethods \cup FirstWinsMethods \cup ConcatMethods \cup FanOutMethods

Methods == DocumentMethods \cup ResolveMethods \cup {"workspaceSymbol"}

\* the results a backend may send for a request of this method
ResultsOf(method) ==
    CASE method = "completion" ->
            {Null, Arr(<<CompA, CompB, CompAEmptyDetail, CompB>>),
             CompletionList(<<CompB, CompB>>)}
      [] method \in LocationMethods ->
            {Null, Arr(<<LocA, LocB>>), Arr(<<LinkA>>), [type |-> "object", loc |-> LocA]}
      [] method \in FirstWinsMethods -> {Null, ObjectResult(1)}
      [] method \in ConcatMethods -> {Null, Arr(<<Item(1)>>)}
      [] method \in FanOutMethods -> {Null, Arr(<<Item(1)>>), Arr(<<Item(1), Item(2)>>)}
      [] method = "formatting" -> {Null, Arr(<<>>), Arr(<<Item(1)>>)}
      [] method = "selectionRange" ->
            {Null, Arr(<<>>), Arr(<<Item(1), Item(2)>>), Arr(<<Item(2)>>)}
      [] method = "workspaceSymbol" ->
            {Null, Arr(<<SymA, SymB>>), Arr(<<SymB, SymAOther>>)}
      [] method = "completionResolve" ->
            {Null, CompA, CompAEmptyDetail, CompAResolved}
      [] method = "codeLensResolve" -> {Null, LensA, LensAResolved}

(***************************************************************************)
(* ProxyServer: feature requests.                                          *)
(*                                                                         *)
(* A handler runs from the request to its first await on a backend         *)
(* response, and from each response to the next await or to its return,    *)
(* without interruption (one JavaScript task).  A sendRequest that throws   *)
(* (gateway not started or not initialized) rejects within the same task.  *)
(***************************************************************************)
Returned(value) == [status |-> "returned", value |-> value]

\* the handler's promise rejects: an error response goes to the editor
Threw == [status |-> "threw"]

\* the result of the early return "if (!parsed) return ..."
EmptyResult(method) ==
    IF method \in FirstWinsMethods THEN Null ELSE Arr(<<>>)

\* the positions the editor asks about
RequestPositions == {Position(0, 9)}

\* the positions of a selection-range request: inside the script of
\* ScriptText, and the start of the document
SelectionPositions == {Position(0, 9), Position(0, 0)}

\* the item the editor asks to resolve
ResolveItemOf(method) == IF method = "completionResolve" THEN CompA ELSE LensA

Stage(backend, runs) == [backend |-> backend, runs |-> runs]

\* the backend calls a handler makes one after another, in program order,
\* each with the condition that guards it
StagesOf(method, parsed, position, positions) ==
    CASE method \in {"completion", "hover"} ->
            <<Stage(Svelte, shouldUseSvelteServer(parsed, position)),
              Stage(TypeScript, shouldUseTypeScriptServer(parsed, position))>>
      [] method \in LocationMethods \cup ConcatMethods
                    \cup {"signatureHelp", "rename", "prepareRename"} ->
            <<Stage(TypeScript, shouldUseTypeScriptServer(parsed, position)),
              Stage(Svelte, shouldUseSvelteServer(parsed, position))>>
      [] method = "formatting" ->
            <<Stage(Svelte, isSvelteFile(parsed.uri)), Stage(TypeScript, TRUE)>>
      [] method \in FanOutMethods ->
            \* the else branch: "For non-Svelte files, only query TypeScript server"
            <<Stage(TypeScript, TRUE)>>
      [] method = "selectionRange" ->
            [i \in 1..Len(positions) |->
                IF shouldUseTypeScriptServer(parsed, positions[i])
                THEN Stage(TypeScript, TRUE)
                ELSE Stage(Svelte, shouldUseSvelteServer(parsed, positions[i]))]
      [] method \in ResolveMethods ->
            <<Stage(TypeScript, TRUE), Stage(Svelte, TRUE)>>

\* the handlers that await both backends with Promise.all
IsParallel(method, parsed) ==
    \/ method = "workspaceSymbol"
    \/ method \in FanOutMethods /\ isSvelteFile(parsed.uri)

\* variant: a handler that keeps only the item it pushed last
ContLast(results) ==
    [return |-> FALSE,
     results |-> IF results = <<>> THEN <<>> ELSE <<results[Len(results)]>>,
     value |-> Undefined]

Cont(results) == [return |-> FALSE, results |-> results, value |-> Undefined]

\* variant: a handler that answers null where it should hand on a result
RetNull(value) == [return |-> TRUE, results |-> <<>>, value |-> Null]

Ret(value) == [return |-> TRUE, results |-> <<>>, value |-> value]

\* results.push(...(r || [])) inside try/catch: a result that is not iterable
\* throws a TypeError that the catch swallows
PushAll(acc, outcome) ==
    IF outcome # Reject /\ IsArray(outcome) THEN acc \o outcome.items ELSE acc

\* variant: any answer of the scripting backend wins
HasResolveInfoAlways(method, r) == TRUE

\* the added information that makes a resolve result win
HasResolveInfo(method, r) ==
    IF method = "completionResolve"
    THEN \/ Truthy(Field(r, "detail"))
         \/ Truthy(Field(r, "documentation"))
         \/ Truthy(Field(r, "additionalTextEdits"))
    ELSE Truthy(Field(r, "command"))

\* variant: any list of edits is taken, an empty one too
HasEditsOrNone(outcome) == outcome # Reject /\ IsArray(outcome)

\* result && result.length > 0
HasEdits(outcome) == outcome # Reject /\ IsArray(outcome) /\ Len(outcome.items) > 0

\* variant: a position without a range still gets an entry, a null one
PushFirstOrNull(acc, outcome) ==
    IF outcome # Reject /\ IsArray(outcome) /\ Len(outcome.items) > 0
    THEN Append(acc, outcome.items[1])
    ELSE Append(acc, Null)

\* if (results && results.length > 0) results.push(results[0]), inside
\* try/catch: a failed call, null or an empty list pushes nothing
PushFirst(acc, outcome) ==
    IF outcome # Reject /\ IsArray(outcome) /\ Len(outcome.items) > 0
    THEN Append(acc, outcome.items[1])
    ELSE acc

\* what a handler does with the outcome of the call to this backend: return a
\* value to the editor, or go on with the accumulated results
Absorb(method, backend, acc, outcome) ==
    CASE method = "completion" ->
            IF outcome = Reject THEN Cont(acc)
            ELSE IF IsArray(outcome) THEN Cont(acc \o outcome.items)
            ELSE IF Truthy(outcome)
                 \* (r?.items || []): the items of a CompletionList
                 THEN Cont(acc \o (IF "items" \in DOMAIN outcome
                                   THEN outcome.items ELSE <<>>))
            ELSE Cont(acc)
      [] method = "hover" ->
            IF outcome = Reject THEN Cont(acc) ELSE Ret(outcome)
      [] method \in LocationMethods \cup ConcatMethods \cup FanOutMethods ->
            Cont(PushAll(acc, outcome))
      [] method \in {"signatureHelp", "rename"} ->
            IF outcome = Reject THEN Cont(acc)
            ELSE IF backend = TypeScript
                 THEN (IF Truthy(outcome) THEN Ret(outcome) ELSE Cont(acc))
            ELSE Ret(outcome)
      [] method = "prepareRename" ->
            IF outcome # Reject /\ Truthy(outcome) THEN Ret(outcome) ELSE Cont(acc)
      [] method = "formatting" ->
            IF backend = Svelte
            THEN (IF HasEdits(outcome) THEN Ret(outcome) ELSE Cont(acc))
            ELSE (IF outcome # Reject /\ Truthy(outcome) THEN Ret(outcome)
                  ELSE Ret(Arr(<<>>)))
      [] method = "selectionRange" -> Cont(PushFirst(acc, outcome))
      [] method \in ResolveMethods ->
            IF outcome = Reject \/ ~Truthy(outcome) THEN Cont(acc)
            ELSE IF backend = TypeScript
                 THEN (IF HasResolveInfo(method, outcome) THEN Ret(outcome) ELSE Cont(acc))
            ELSE Ret(outcome)

\* the statement after the last backend call of a handler
Finish(method, acc) ==
    CASE method = "completion" -> Returned(Arr(deduplicateCompletions(acc)))
      [] method \in LocationMethods ->
            LET d == deduplicateLocations(acc)
            IN IF d.threw THEN Threw ELSE Returned(Arr(d.items))
      [] method \in FirstWinsMethods -> Returned(Null)
      [] method \in ResolveMethods -> Returned(ResolveItemOf(method))
      [] OTHER -> Returned(Arr(acc))

\* .catch(error => null) on each call of a Promise.all
CatchNull(outcome) == IF outcome = Reject THEN Null ELSE outcome

\* variant: one try/catch around the Promise.all, without the catch on each
\* call: a single rejection empties the response
CombineAllOrNothing(method, slots) ==
    IF \E b \in Backends : slots[b] = Reject
    THEN Returned(Arr(<<>>))
    ELSE IF method = "workspaceSymbol"
    THEN LET ts == IF IsArray(slots[TypeScript]) THEN slots[TypeScript].items ELSE <<>>
             sv == IF IsArray(slots[Svelte]) THEN slots[Svelte].items ELSE <<>>
         IN Returned(Arr(deduplicateWorkspaceSymbols(ts \o sv)))
    ELSE IF \E b \in Backends : Truthy(slots[b]) /\ ~IsArray(slots[b])
    THEN Threw
    ELSE LET sv == IF Truthy(slots[Svelte]) THEN slots[Svelte].items ELSE <<>>
             ts == IF Truthy(slots[TypeScript]) THEN slots[TypeScript].items ELSE <<>>
         IN Returned(Arr(sv \o ts))

\* variant: the scripting backend's items come first in a document-wide list
CombineScriptingFirst(method, slots) ==
    LET svelteResults == CatchNull(slots[Svelte])
        tsResults == CatchNull(slots[TypeScript])
    IN IF method = "workspaceSymbol"
       THEN LET ts == IF IsArray(tsResults) THEN tsResults.items ELSE <<>>
                sv == IF IsArray(svelteResults) THEN svelteResults.items ELSE <<>>
            IN Returned(Arr(deduplicateWorkspaceSymbols(ts \o sv)))
       ELSE IF \/ Truthy(svelteResults) /\ ~IsArray(svelteResults)
               \/ Truthy(tsResults) /\ ~IsArray(tsResults)
            THEN Threw
            ELSE LET sv == IF Truthy(svelteResults) THEN svelteResults.items ELSE <<>>
                     ts == IF Truthy(tsResults) THEN tsResults.items ELSE <<>>
                 IN Returned(Arr(ts \o sv))

\* variant: the template backend's symbols come first in the merged list
CombineTemplateFirst(method, slots) ==
    LET svelteResults == CatchNull(slots[Svelte])
        tsResults == CatchNull(slots[TypeScript])
    IN IF method = "workspaceSymbol"
       THEN LET ts == IF IsArray(tsResults) THEN tsResults.items ELSE <<>>
                sv == IF IsArray(svelteResults) THEN svelteResults.items ELSE <<>>
            IN Returned(Arr(deduplicateWorkspaceSymbols(sv \o ts)))
       ELSE IF \/ Truthy(svelteResults) /\ ~IsArray(svelteResults)
               \/ Truthy(tsResults) /\ ~IsArray(tsResults)
            THEN Threw
            ELSE LET sv == IF Truthy(svelteResults) THEN svelteResults.items ELSE <<>>
                     ts == IF Truthy(tsResults) THEN tsResults.items ELSE <<>>
                 IN Returned(Arr(sv \o ts))

\* the code after "await Promise.all([...])"; slots holds how each call
\* settled, the array Promise.all yields holds null for a rejected call
Combine(method, slots) ==
    LET svelteResults == CatchNull(slots[Svelte])
        tsResults == CatchNull(slots[TypeScript])
    IN IF method = "workspaceSymbol"
       THEN LET ts == IF IsArray(tsResults) THEN tsResults.items ELSE <<>>
                sv == IF IsArray(svelteResults) THEN svelteResults.items ELSE <<>>
            IN Returned(Arr(deduplicateWorkspaceSymbols(ts \o sv)))
       ELSE IF \/ Truthy(svelteResults) /\ ~IsArray(svelteResults)
               \/ Truthy(tsResults) /\ ~IsArray(tsResults)
            \* results.push(...x) of a value that is not iterable, outside any try
            THEN Threw
            ELSE LET sv == IF Truthy(svelteResults) THEN svelteResults.items ELSE <<>>
                     ts == IF Truthy(tsResults) THEN tsResults.items ELSE <<>>
                 IN Returned(Arr(sv \o ts))

Pending == [type |-> "pending"]

\* the bookkeeping of one handler invocation.  parsed is the reference the
\* lookup returned; snapshot, asked / askedAt / wired and settled are
\* history: the object as it was at the lookup, the gateways whose
\* sendRequest was called and the position in the params of each call, the
\* gateways whose connection the request was written to, and how each call
\* settled, in the order in which the calls settled.
NewRequest(method, uri, ref, h, position, positions) ==
    [pc |-> "run",
     method |-> method,
     uri |-> uri,
     parsed |-> ref,
     snapshot |-> IF ref = NullRef THEN Undefined ELSE h[ref],
     position |-> position,
     positions |-> positions,
     stage |-> 1,
     awaiting |-> "",
     results |-> <<>>,
     slots |-> [b \in Backends |-> Undefined],
     asked |-> <<>>,
     askedAt |-> <<>>,
     wired |-> <<>>,
     settled |-> <<>>,
     response |-> Undefined]

\* the handler returns: its local variables are gone
Return(req, response) ==
    [req EXCEPT !.pc = "done", !.awaiting = "", !.stage = 0, !.results = <<>>,
                !.response = response]

\* the ParsedDocument object the handler holds
HeldParsed(req, h) == IF req.parsed = NullRef THEN Undefined ELSE h[req.parsed]

\* history: the call to this backend settled with this outcome
Settlement(backend, outcome) == [backend |-> backend, outcome |-> outcome]

RECURSIVE RunFrom(_, _, _), AfterOutcome(_, _, _, _, _)
\* run the handler from its current stage up to its next await or its return
RunFrom(req, gw, h) ==
    LET stages == StagesOf(req.method, HeldParsed(req, h), req.position, req.positions)
    IN IF req.stage > Len(stages)
       THEN Return(req, Finish(req.method, req.results))
       ELSE LET st == stages[req.stage]
                \* selection range sends positions: [position], the others params
                at == IF req.method = "selectionRange"
                      THEN req.positions[req.stage] ELSE req.position
                called == [req EXCEPT !.asked = Append(@, st.backend),
                                      !.askedAt = Append(@, at)]
            IN IF ~st.runs
               THEN RunFrom([req EXCEPT !.stage = @ + 1], gw, h)
               ELSE IF SendRequestCheck(gw[st.backend], req.method) # "ok"
               THEN AfterOutcome(called, st.backend, Reject, gw, h)
               ELSE [called EXCEPT !.pc = "await",
                                   !.awaiting = st.backend,
                                   !.wired = Append(@, st.backend)]

\* resume the handler with the outcome of the call it awaited
AfterOutcome(req, backend, outcome, gw, h) ==
    LET a == Absorb(req.method, backend, req.results, outcome)
        seen == [req EXCEPT !.settled = Append(@, Settlement(backend, outcome))]
    IN IF a.return
       THEN Return(seen, Returned(a.value))
       ELSE RunFrom([seen EXCEPT !.results = a.results, !.stage = @ + 1,
                                 !.awaiting = ""], gw, h)

\* the order in which a Promise.all handler calls the two gateways
ParallelOrder(method) ==
    IF method = "workspaceSymbol" THEN <<TypeScript, Svelte>> ELSE <<Svelte, TypeScript>>

\* variant: the Promise.all handler goes on with the first call that settles
JoinFirst(req) ==
    IF \A b \in Backends : req.slots[b] = Pending
    THEN [req EXCEPT !.pc = "awaitAll"]
    ELSE Return(req, Returned(Arr(<<>>)))

\* leave the Promise.all once no call is pending
JoinAll(req) ==
    IF \E b \in Backends : req.slots[b] = Pending
    THEN [req EXCEPT !.pc = "awaitAll"]
    ELSE Return(req, Combine(req.method, req.slots))

\* issue both calls of a Promise.all handler
StartParallel(req, gw) ==
    LET ok(b) == SendRequestCheck(gw[b], req.method) = "ok"
        order == ParallelOrder(req.method)
        failed(b) == ~ok(b)
        failures == SelectSeq(order, failed)
    IN JoinAll([req EXCEPT
                  !.asked = order,
                  !.askedAt = [i \in 1..Len(order) |-> req.position],
                  !.wired = SelectSeq(order, ok),
                  !.settled = [i \in 1..Len(failures) |-> Settlement(failures[i], Reject)],
                  !.slots = [b \in Backends |-> IF ok(b) THEN Pending ELSE Reject]])

\* variant: a lookup that falls back to the entry of another document
GetParsedAnyKey(map, uri) ==
    IF map[uri] # NullRef THEN map[uri] ELSE Max({map[u] : u \in DOMAIN map})

\* this.parsedDocuments.get(uri): the entry, or none
GetParsed(map, uri) == map[uri]

\* a handler that starts by looking up the cached ParsedDocument, from its
\* call to its first await or its return
Invoke(method, uri, position, positions) ==
    LET ref == GetParsed(parsedDocuments, uri)
        req == NewRequest(method, uri, ref, heap, position, positions)
    IN IF ref = NullRef
       THEN Return(req, Returned(EmptyResult(method)))
       ELSE IF IsParallel(method, heap[ref])
       THEN StartParallel(req, gateway)
       ELSE RunFrom(req, gateway, heap)

StartDocument(method, uri, position, positions) ==
    /\ listening
    /\ request.pc = "idle"
    /\ request' = Invoke(method, uri, position, positions)
    /\ UNCHANGED <<unitVars, listening, gateway, documents, parsedDocuments, heap,
                   editorEvents, notifLog>>

\* a handler that does not look at any document
StartGlobal(method) ==
    LET req == NewRequest(method, <<>>, NullRef, heap, Undefined, <<>>)
    IN /\ listening
       /\ request.pc = "idle"
       /\ request' = IF IsParallel(method, Undefined)
                     THEN StartParallel(req, gateway)
                     ELSE RunFrom(req, gateway, heap)
       /\ UNCHANGED <<unitVars, listening, gateway, documents, parsedDocuments, heap,
                      editorEvents, notifLog>>

onCompletion(uri, position) == StartDocument("completion", uri, position, <<>>)

onHover(uri, position) == StartDocument("hover", uri, position, <<>>)

onDefinition(uri, position) == StartDocument("definition", uri, position, <<>>)

onReferences(uri, position) == StartDocument("references", uri, position, <<>>)

onSignatureHelp(uri, position) == StartDocument("signatureHelp", uri, position, <<>>)

onDocumentSymbol(uri) == StartDocument("documentSymbol", uri, Undefined, <<>>)

onCodeAction(uri, position) == StartDocument("codeAction", uri, position, <<>>)

onRename(uri, position) == StartDocument("rename", uri, position, <<>>)

onWorkspaceSymbol == StartGlobal("workspaceSymbol")

onDocumentFormatting(uri) == StartDocument("formatting", uri, Undefined, <<>>)

onTypeDefinition(uri, position) == StartDocument("typeDefinition", uri, position, <<>>)

onImplementation(uri, position) == StartDocument("implementation", uri, position, <<>>)

onDeclaration(uri, position) == StartDocument("declaration", uri, position, <<>>)

onDocumentHighlight(uri, position) ==
    StartDocument("documentHighlight", uri, position, <<>>)

onPrepareRename(uri, position) == StartDocument("prepareRename", uri, position, <<>>)

onCompletionResolve == StartGlobal("completionResolve")

onCodeLens(uri) == StartDocument("codeLens", uri, Undefined, <<>>)

onCodeLensResolve == StartGlobal("codeLensResolve")

onFoldingRanges(uri) == StartDocument("foldingRange", uri, Undefined, <<>>)

onSelectionRanges(uri, positions) ==
    StartDocument("selectionRange", uri, Undefined, positions)

\* the sequences of at most n elements of S
RECURSIVE SeqsUpTo(_, _)
SeqsUpTo(S, n) ==
    IF n = 0 THEN {<<>>}
    ELSE SeqsUpTo(S, n - 1)
         \cup {Append(q, x) : q \in {r \in SeqsUpTo(S, n - 1) : Len(r) = n - 1}, x \in S}

\* what can come back for a call to this backend: a result of the method or
\* an error; only a rejection once the connection is gone
OutcomesOf(method, g) ==
    IF g.connection = Null THEN {Reject} ELSE ResultsOf(method) \cup {Reject}

\* the call a sequential handler awaits settles: the handler resumes
ResumeAfterAwait(b, outcome) ==
    /\ request.pc = "await"
    /\ request.awaiting = b
    /\ outcome \in OutcomesOf(request.method, gateway[b])
    /\ request' = AfterOutcome(request, b, outcome, gateway, heap)
    /\ UNCHANGED <<unitVars, listening, gateway, documents, parsedDocuments, heap,
                   editorEvents, notifLog>>

\* one call of a Promise.all settles; the handler resumes once both have
ResumeAfterAll(b, outcome) ==
    /\ request.pc = "awaitAll"
    /\ request.slots[b] = Pending
    /\ outcome \in OutcomesOf(request.method, gateway[b])
    /\ request' = JoinAll([request EXCEPT !.slots[b] = outcome,
                                          !.settled = Append(@, Settlement(b, outcome))])
    /\ UNCHANGED <<unitVars, listening, gateway, documents, parsedDocuments, heap,
                   editorEvents, notifLog>>

\* the connection sends the returned value (or the error) to the editor;
\* nothing of the handler invocation remains
Respond ==
    /\ request.pc = "done"
    /\ request' = IdleRequest
    /\ UNCHANGED <<unitVars, listening, gateway, documents, parsedDocuments, heap,
                   editorEvents, notifLog>>

AllOutcomes == UNION {ResultsOf(m) : m \in Methods} \cup {Reject}

Next ==
    \/ ProxyStart
    \/ \E b \in Backends : GatewayInitialize(b)
    \/ \E b \in Backends : GatewayExit(b)
    \/ \E u \in Uris, t \in Texts : onDidOpenDocument(u, t)
    \/ \E u \in Uris, t \in Texts : onDidChangeDocument(u, t)
    \/ \E u \in Uris : onDidCloseDocument(u)
    \/ \E u \in Uris, p \in RequestPositions : onCompletion(u, p)
    \/ \E u \in Uris, p \in RequestPositions : onHover(u, p)
    \/ \E u \in Uris, p \in RequestPositions : onDefinition(u, p)
    \/ \E u \in Uris, p \in RequestPositions : onReferences(u, p)
    \/ \E u \in Uris, p \in RequestPositions : onSignatureHelp(u, p)
    \/ \E u \in Uris : onDocumentSymbol(u)
    \/ \E u \in Uris, p \in RequestPositions : onCodeAction(u, p)
    \/ \E u \in Uris, p \in RequestPositions : onRename(u, p)
    \/ onWorkspaceSymbol
    \/ \E u \in Uris : onDocumentFormatting(u)
    \/ \E u \in Uris, p \in RequestPositions : onTypeDefinition(u, p)
    \/ \E u \in Uris, p \in RequestPositions : onImplementation(u, p)
    \/ \E u \in Uris, p \in RequestPositions : onDeclaration(u, p)
    \/ \E u \in Uris, p \in RequestPositions : onDocumentHighlight(u, p)
    \/ \E u \in Uris, p \in RequestPositions : onPrepareRename(u, p)
    \/ onCompletionResolve
    \/ \E u \in Uris : onCodeLens(u)
    \/ onCodeLensResolve
    \/ \E u \in Uris : onFoldingRanges(u)
    \/ \E u \in Uris, ps \in SeqsUpTo(SelectionPositions, MaxPositions) :
          onSelectionRanges(u, ps)
    \/ \E b \in Backends, o \in AllOutcomes : ResumeAfterAwait(b, o)
    \/ \E b \in Backends, o \in AllOutcomes : ResumeAfterAll(b, o)
    \/ Respond

Spec == Init /\ [][Next]_vars

(***************************************************************************)
(* The routing predicates of documentParser, applied to one document.      *)
(***************************************************************************)
\* the uris the predicates are applied to
RouteUris == {
    <<"a", ".", "s", "v", "e", "l", "t", "e">>,
    <<"b", ".", "t", "s">>,
    <<"c", ".", "m", "j", "s">>,
    <<"d", ".", "j", "s">>,
    <<"e", ".", "t", "s", "x">>,
    <<"f", ".", "j", "s", "x">>,
    <<"g", ".", "s", "v", "e", "l", "t", "e", ".", "t", "s">>,
    <<"h", ".", "t", "s", ".", "s", "v", "e", "l", "t", "e">>,
    <<".", "s", "v", "e", "l", "t", "e">>,
    <<"i", ".", "S", "V", "E", "L", "T", "E">>,
    <<"j", ".", "c", "s", "s">>,
    <<"k", ".", "t", "s", "v">>,
    <<"t", "s">>,
    <<>>,
    <<"l", ".", "s", "v", "e", "l", "t", "e", ".", "b", "a", "k">>,
    <<"m", ".", "d", ".", "t", "s">>
}

\* the contents the predicates are applied to
RouteTexts == {
    <<"<", "s", "c", "r", "i", "p", "t", ">", "a", "<", "/", "s", "c", "r",
      "i", "p", "t", ">">>,
    <<"b">>,
    <<"<", "s", "t", "y", "l", "e", ">", "p", "<", "/", "s", "t", "y", "l",
      "e", ">">>,
    <<>>,
    <<"a", "\n", "<", "s", "c", "r", "i", "p", "t", " ", "l", "a", "n",
      "g", "=", "\"", "t", "s", "\"", ">", "\n", "b", "<", "/", "s", "c",
      "r", "i", "p", "t", ">">>,
    <<"<", "s", "c", "r", "i", "p", "t", ">", "a", "<", "/", "s", "c", "r",
      "i", "p", "t", ">", "<", "s", "c", "r", "i", "p", "t", ">", "b", "<",
      "/", "s", "c", "r", "i", "p", "t", ">">>,
    <<"<", "s", "c", "r", "i", "p", "t", " ", "c", "o", "n", "t", "e", "x",
      "t", "=", "\"", "m", "o", "d", "u", "l", "e", "\"", ">", "m", "<",
      "/", "s", "c", "r", "i", "p", "t", ">">>
}

\* the positions the predicates are applied to: none, start of the document,
\* inside the first script of ScriptText, a later line
RoutePositions == <<Undefined, Position(0, 0), Position(0, 9), Position(2, 0)>>

InitRouting ==
    /\ InitProxy
    /\ dedup = [phase |-> "off"]
    /\ parsing = Off
    /\ lspServer = Off
    /\ forwarding = Off
    /\ configuring = Off
    /\ handshake = Off
    /\ pool = Off
    /\ routing \in {[phase |-> "input", uri |-> u, content |-> c] :
                        u \in RouteUris, c \in RouteTexts}

\* parse the document, then evaluate the three predicates at every position
Route ==
    LET parsed == parseDocument(routing.uri, routing.content, 1)
    IN /\ routing.phase = "input"
       /\ routing' =
            [phase |-> "routed",
             uri |-> routing.uri,
             content |-> routing.content,
             parsed |-> parsed,
             isSvelteFile |-> isSvelteFile(routing.uri),
             useSvelte |-> [i \in DOMAIN RoutePositions |->
                              shouldUseSvelteServer(parsed, RoutePositions[i])],
             useTypeScript |-> [i \in DOMAIN RoutePositions |->
                              shouldUseTypeScriptServer(parsed, RoutePositions[i])]]
       /\ UNCHANGED <<listening, gateway, documents, parsedDocuments, heap,
                      editorEvents, notifLog, request, dedup,
                      parsing, lspServer, forwarding,
          configuring, handshake, pool>>

NextRouting == Route

SpecRouting == InitRouting /\ [][NextRouting]_vars

(***************************************************************************)
(* deduplicateCompletions, applied to one list and to its own result.      *)
(***************************************************************************)
\* the longest list the function is applied to
MaxLen == 3

\* foo/1 with a detail
CompADetail == [type |-> "object", label |-> Str(<<"f", "o", "o">>), kind |-> Num(1),
                detail |-> Str(<<"d">>)]

\* foo without a kind
CompANoKind == [type |-> "object", label |-> Str(<<"f", "o", "o">>)]

\* the completion items the lists are made of
DedupItems == {CompA, CompAEmptyDetail, CompADetail, CompANoKind, CompB}

InitDedup ==
    /\ InitProxy
    /\ routing = [phase |-> "off"]
    /\ parsing = Off
    /\ lspServer = Off
    /\ forwarding = Off
    /\ configuring = Off
    /\ handshake = Off
    /\ pool = Off
    /\ dedup \in {[phase |-> "input", list |-> L] : L \in SeqsUpTo(DedupItems, MaxLen)}

\* deduplicateCompletions(list)
Deduplicate ==
    /\ dedup.phase = "input"
    /\ dedup' = [phase |-> "once", list |-> dedup.list,
                 once |-> deduplicateCompletions(dedup.list)]
    /\ UNCHANGED <<listening, gateway, documents, parsedDocuments, heap,
                   editorEvents, notifLog, request, routing,
                   parsing, lspServer, forwarding,
          configuring, handshake, pool>>

\* deduplicateCompletions of the list the first application returned
DeduplicateAgain ==
    /\ dedup.phase = "once"
    /\ dedup' = [phase |-> "twice", list |-> dedup.list, once |-> dedup.once,
                 twice |-> deduplicateCompletions(dedup.once)]
    /\ UNCHANGED <<listening, gateway, documents, parsedDocuments, heap,
                   editorEvents, notifLog, request, routing,
                   parsing, lspServer, forwarding,
          configuring, handshake, pool>>

NextDedup == Deduplicate \/ DeduplicateAgain

SpecDedup == InitDedup /\ [][NextDedup]_vars

(***************************************************************************)
(* parseDocument and getRegionAtPosition, applied to one text.             *)
(***************************************************************************)
\* the contents parseDocument is applied to
ParseTexts == {
    \* a plain script: <script>a</script>
    <<"<", "s", "c", "r", "i", "p", "t", ">", "a", "<", "/", "s", "c", "r",
      "i", "p", "t", ">">>,
    \* no tag: b
    <<"b">>,
    \* the empty document
    <<>>,
    \* a style: <style>p</style>
    <<"<", "s", "t", "y", "l", "e", ">", "p", "<", "/", "s", "t", "y", "l",
      "e", ">">>,
    \* a script that starts on the second line and spans two: a\n<script lang="ts">\nb</script>
    <<"a", "\n", "<", "s", "c", "r", "i", "p", "t", " ", "l", "a", "n",
      "g", "=", "\"", "t", "s", "\"", ">", "\n", "b", "<", "/", "s", "c",
      "r", "i", "p", "t", ">">>,
    \* two plain scripts: <script>a</script><script>b</script>
    <<"<", "s", "c", "r", "i", "p", "t", ">", "a", "<", "/", "s", "c", "r",
      "i", "p", "t", ">", "<", "s", "c", "r", "i", "p", "t", ">", "b", "<",
      "/", "s", "c", "r", "i", "p", "t", ">">>,
    \* a module script, then a plain script: <script context="module">m</script><script>a</script>
    <<"<", "s", "c", "r", "i", "p", "t", " ", "c", "o", "n", "t", "e", "x",
      "t", "=", "\"", "m", "o", "d", "u", "l", "e", "\"", ">", "m", "<",
      "/", "s", "c", "r", "i", "p", "t", ">", "<", "s", "c", "r", "i", "p",
      "t", ">", "a", "<", "/", "s", "c", "r", "i", "p", "t", ">">>,
    \* a plain script, then a module script: <script>a</script><script context="module">m</script>
    <<"<", "s", "c", "r", "i", "p", "t", ">", "a", "<", "/", "s", "c", "r",
      "i", "p", "t", ">", "<", "s", "c", "r", "i", "p", "t", " ", "c", "o",
      "n", "t", "e", "x", "t", "=", "\"", "m", "o", "d", "u", "l", "e",
      "\"", ">", "m", "<", "/", "s", "c", "r", "i", "p", "t", ">">>,
    \* two module scripts: <script context="module">m</script><script context="module">n</script>
    <<"<", "s", "c", "r", "i", "p", "t", " ", "c", "o", "n", "t", "e", "x",
      "t", "=", "\"", "m", "o", "d", "u", "l", "e", "\"", ">", "m", "<",
      "/", "s", "c", "r", "i", "p", "t", ">", "<", "s", "c", "r", "i", "p",
      "t", " ", "c", "o", "n", "t", "e", "x", "t", "=", "\"", "m", "o",
      "d", "u", "l", "e", "\"", ">", "n", "<", "/", "s", "c", "r", "i",
      "p", "t", ">">>,
    \* an opening tag without its closing tag: <script>a
    <<"<", "s", "c", "r", "i", "p", "t", ">", "a">>,
    \* a longer tag name: <scriptx>a</script>
    <<"<", "s", "c", "r", "i", "p", "t", "x", ">", "a", "<", "/", "s", "c",
      "r", "i", "p", "t", ">">>,
    \* an opening tag that is not closed by ">" before the closing tag: <script a</script>
    <<"<", "s", "c", "r", "i", "p", "t", " ", "a", "<", "/", "s", "c", "r",
      "i", "p", "t", ">">>,
    \* a script without content: <script></script>
    <<"<", "s", "c", "r", "i", "p", "t", ">", "<", "/", "s", "c", "r", "i",
      "p", "t", ">">>,
    \* a script whose content also occurs in its opening tag: <script>s</script>
    <<"<", "s", "c", "r", "i", "p", "t", ">", "s", "<", "/", "s", "c", "r",
      "i", "p", "t", ">">>,
    \* upper case: <SCRIPT>a</SCRIPT>
    <<"<", "S", "C", "R", "I", "P", "T", ">", "a", "<", "/", "S", "C", "R",
      "I", "P", "T", ">">>,
    \* a script, then a style on the next line: <script>a</script>\n<style>p</style>
    <<"<", "s", "c", "r", "i", "p", "t", ">", "a", "<", "/", "s", "c", "r",
      "i", "p", "t", ">", "\n", "<", "s", "t", "y", "l", "e", ">", "p",
      "<", "/", "s", "t", "y", "l", "e", ">">>,
    \* two styles: <style>p</style><style>q</style>
    <<"<", "s", "t", "y", "l", "e", ">", "p", "<", "/", "s", "t", "y", "l",
      "e", ">", "<", "s", "t", "y", "l", "e", ">", "q", "<", "/", "s", "t",
      "y", "l", "e", ">">>,
    \* a style that is not closed: <style>p
    <<"<", "s", "t", "y", "l", "e", ">", "p">>
}

\* the positions getRegionAtPosition is asked about
ParsePositions == {
    Position(0, 0), Position(0, 1), Position(0, 2), Position(0, 7),
    Position(0, 8), Position(0, 9), Position(0, 10), Position(0, 44),
    Position(1, 0), Position(1, 1), Position(1, 17), Position(1, 18),
    Position(1, 19), Position(2, 0), Position(2, 1), Position(2, 2)
}

InitParse ==
    /\ InitProxy
    /\ routing = [phase |-> "off"]
    /\ dedup = [phase |-> "off"]
    /\ lspServer = Off
    /\ forwarding = Off
    /\ configuring = Off
    /\ handshake = Off
    /\ pool = Off
    /\ parsing \in {[phase |-> "input", content |-> c] : c \in ParseTexts}

\* parseDocument(uri, content, 1)
Parse ==
    /\ parsing.phase = "input"
    /\ parsing' = [phase |-> "parsed", content |-> parsing.content,
                   parsed |-> parseDocument(SvelteUri, parsing.content, 1)]
    /\ UNCHANGED <<listening, gateway, documents, parsedDocuments, heap,
                   editorEvents, notifLog, request, routing, dedup,
                   lspServer, forwarding,
          configuring, handshake, pool>>

\* getRegionAtPosition(parsed, position) on the document parseDocument returned
RegionAt(position) ==
    /\ parsing.phase = "parsed"
    /\ parsing' = [phase |-> "located", content |-> parsing.content,
                   parsed |-> parsing.parsed, position |-> position,
                   region |-> getRegionAtPosition(parsing.parsed, position)]
    /\ UNCHANGED <<listening, gateway, documents, parsedDocuments, heap,
                   editorEvents, notifLog, request, routing, dedup,
                   lspServer, forwarding,
          configuring, handshake, pool>>

NextParse ==
    \/ Parse
    \/ \E p \in ParsePositions : RegionAt(p)

SpecParse == InitParse /\ [][NextParse]_vars

(***************************************************************************)
(* One LSPServerProcess in detail: its fields, the child processes it      *)
(* spawned, the connections it created, the force-kill timers it set, and  *)
(* the calls of initialize, sendRequest and stop that wait for a response. *)
(***************************************************************************)
\* child processes spawned by one LSPServerProcess per behaviour
MaxSpawns == 2
\* calls of the public methods of one LSPServerProcess per behaviour
MaxCalls == 4

\* no call of the method is waiting for a response
NoCall == [pc |-> "none"]

\* the methods the callers pass to sendRequest and to sendNotification
RequestMethods == {"initialize", "textDocument/hover"}

NotificationMethods == {"textDocument/didOpen"}

\* what a request written to a connection comes back with
Outcomes == {"result", "error"}

\* LSPServerProcess after its constructor; childProcess and connection are
\* null (0) or the number of the child / connection in procs / conns
NewServer ==
    [phase |-> "on",
     childProcess |-> 0,
     connection |-> 0,
     isInitialized |-> FALSE,
     procs |-> <<>>,
     conns |-> <<>>,
     timers |-> <<>>,
     initializing |-> NoCall,
     requesting |-> NoCall,
     stopping |-> NoCall,
     calls |-> 0,
     last |-> [op |-> "new"]]

\* a spawned child: killed is ChildProcess.killed, signals the kill() calls
NewChild == [killed |-> FALSE, exited |-> FALSE, signals |-> <<>>]

\* a created connection: sent is what was written to it, in order; answered
\* tells that the initialize request written to it got its result
NewConnection == [ended |-> FALSE, closed |-> FALSE, answered |-> FALSE, sent |-> <<>>]

Message(kind, method) == [kind |-> kind, method |-> method]

\* this.connection.sendRequest / this.connection.sendNotification: the message
\* is written to the connection the field refers to at that moment
Write(s, kind, method) ==
    [s EXCEPT !.conns[s.connection].sent = Append(@, Message(kind, method))]

\* this.childProcess.kill(signal): the flag killed is set when the signal was
\* delivered, which it is not to a child that has exited
Kill(s, signal) ==
    [s EXCEPT !.procs[s.childProcess].signals = Append(@, signal),
              !.procs[s.childProcess].killed = ~s.procs[s.childProcess].exited]

\* cleanup(), first block: end the connection and forget it
EndConnection(s) ==
    IF s.connection = 0 THEN s
    ELSE [s EXCEPT !.conns[s.connection].ended = TRUE, !.connection = 0]

\* cleanup(), second block: SIGTERM and a force-kill timer unless the child is
\* already killed, then forget the child; timers lists the pending timers by
\* the child that was current when each was set
ReleaseChild(s) ==
    IF s.childProcess = 0 THEN s
    ELSE IF s.procs[s.childProcess].killed THEN [s EXCEPT !.childProcess = 0]
    ELSE [Kill(s, "SIGTERM") EXCEPT !.timers = Append(@, s.childProcess),
                                     !.childProcess = 0]

cleanup(s) == [ReleaseChild(EndConnection(s)) EXCEPT !.isInitialized = FALSE]

isRunning(s) == s.childProcess # 0 /\ ~s.procs[s.childProcess].killed

isReady(s) == isRunning(s) /\ s.isInitialized

\* a call of a public method is counted and what it did is remembered
Called(s, what) == [s EXCEPT !.calls = @ + 1, !.last = what]

\* a callback (event, timer, response) ran; what it did is remembered
Ran(s, what) == [s EXCEPT !.last = what]

\* start(), after the "already running" test: spawn and connect
Spawn(s) ==
    [s EXCEPT !.procs = Append(@, NewChild),
              !.conns = Append(@, NewConnection),
              !.childProcess = Len(s.procs) + 1,
              !.connection = Len(s.conns) + 1]

\* variant: start() without the "already running" test
startAnyway(s) == Called(Spawn(s), [op |-> "start", result |-> "ok"])

startOf(s) ==
    IF s.childProcess # 0
    THEN Called(s, [op |-> "start", result |-> "already running"])
    ELSE Called(Spawn(s), [op |-> "start", result |-> "ok"])

\* what every step of this specification leaves unchanged
GatewayFrame == UNCHANGED <<proxyVars, routing, dedup, parsing, forwarding,
          configuring, handshake, pool>>

InitGateway ==
    /\ InitProxy
    /\ routing = [phase |-> "off"]
    /\ dedup = [phase |-> "off"]
    /\ parsing = Off
    /\ forwarding = Off
    /\ configuring = Off
    /\ handshake = Off
    /\ pool = Off
    /\ lspServer = NewServer

start ==
    /\ lspServer.calls < MaxCalls
    /\ lspServer.childProcess = 0 => Len(lspServer.procs) < MaxSpawns
    /\ lspServer' = startOf(lspServer)
    /\ GatewayFrame

\* initialize(), up to the await of the initialize request
initializeOf(s) ==
    IF s.connection = 0
    THEN Called(s, [op |-> "initialize", result |-> "not started"])
    ELSE [Called(Write(s, "request", "initialize"),
                 [op |-> "initialize", result |-> "awaiting"])
             EXCEPT !.initializing = [pc |-> "awaiting", conn |-> s.connection]]

initialize ==
    /\ lspServer.calls < MaxCalls
    /\ lspServer.initializing.pc = "none"
    /\ lspServer' = initializeOf(lspServer)
    /\ GatewayFrame

\* the request written to connection c settles: its result is read from the
\* connection, which a closed connection no longer does; an error may also be
\* produced on this side
CanSettle(s, c, outcome) == outcome = "error" \/ ~s.conns[c].closed

\* the result of the initialize request written to connection c has arrived
Answered(s, c, outcome) ==
    IF outcome = "result" THEN [s EXCEPT !.conns[c].answered = TRUE] ELSE s

\* initialize() after the await: the notification, then the flag; the
\* notification throws when this.connection has become null meanwhile
initializeTail(s) ==
    IF s.connection = 0
    THEN [Ran(s, [op |-> "initialize returned", result |-> "TypeError"])
             EXCEPT !.initializing = NoCall]
    ELSE [Ran(Write(s, "notification", "initialized"),
              [op |-> "initialize returned", result |-> "result"])
             EXCEPT !.initializing = NoCall, !.isInitialized = TRUE]

\* variant: the notification and the flag although the request failed
initializeResumedAlways(s, outcome) == initializeTail(s)

\* initialize(), from the settling of the initialize request to the return
initializeResumed(s, outcome) ==
    IF outcome = "error"
    THEN [Ran(s, [op |-> "initialize returned", result |-> "error"])
             EXCEPT !.initializing = NoCall]
    ELSE initializeTail(s)

InitializeSettles(outcome) ==
    /\ lspServer.initializing.pc = "awaiting"
    /\ CanSettle(lspServer, lspServer.initializing.conn, outcome)
    /\ lspServer' = initializeResumed(Answered(lspServer, lspServer.initializing.conn,
                                                outcome), outcome)
    /\ GatewayFrame

\* sendRequest(method), up to the await
sendRequestOf(s, method) ==
    IF s.connection = 0
    THEN Called(s, [op |-> "sendRequest", method |-> method, result |-> "not started"])
    ELSE IF ~s.isInitialized /\ method # "initialize"
    THEN Called(s, [op |-> "sendRequest", method |-> method,
                    result |-> "not initialized"])
    ELSE [Called(Write(s, "request", method),
                 [op |-> "sendRequest", method |-> method, result |-> "awaiting"])
             EXCEPT !.requesting = [pc |-> "awaiting", conn |-> s.connection]]

sendRequest(method) ==
    /\ lspServer.calls < MaxCalls
    /\ lspServer.requesting.pc = "none"
    /\ lspServer' = sendRequestOf(lspServer, method)
    /\ GatewayFrame

\* sendRequest, from the settling of the request to the return or the rethrow
RequestSettles(outcome) ==
    /\ lspServer.requesting.pc = "awaiting"
    /\ CanSettle(lspServer, lspServer.requesting.conn, outcome)
    /\ lspServer' = [Ran(lspServer, [op |-> "sendRequest returned", result |-> outcome])
                        EXCEPT !.requesting = NoCall]
    /\ GatewayFrame

\* variant: sendNotification that throws when not started
sendNotificationOrThrow(s, method) ==
    IF s.connection = 0
    THEN Called(s, [op |-> "sendNotification", method |-> method, result |-> "threw"])
    ELSE Called(Write(s, "notification", method),
                [op |-> "sendNotification", method |-> method, result |-> "sent"])

sendNotificationOf(s, method) ==
    IF s.connection = 0
    THEN Called(s, [op |-> "sendNotification", method |-> method, result |-> "warned"])
    ELSE Called(Write(s, "notification", method),
                [op |-> "sendNotification", method |-> method, result |-> "sent"])

sendNotification(method) ==
    /\ lspServer.calls < MaxCalls
    /\ lspServer' = sendNotificationOf(lspServer, method)
    /\ GatewayFrame

\* what stop() reports when it returns: the child it was called on, how the
\* shutdown request ended, whether the exit notification was written
StopReturned(child, shutdown, exitSent) ==
    [op |-> "stop returned", child |-> child, shutdown |-> shutdown, exitSent |-> exitSent]

\* stop(), up to the await of the shutdown request, or to the return when
\* there is nothing to shut down
stopOf(s) ==
    IF s.isInitialized /\ s.connection # 0
    THEN [Called(Write(s, "request", "shutdown"), [op |-> "stop", result |-> "awaiting"])
             EXCEPT !.stopping = [pc |-> "awaiting", conn |-> s.connection,
                                  child |-> s.childProcess]]
    ELSE Called(cleanup(s), StopReturned(s.childProcess, "skipped", FALSE))

stop ==
    /\ lspServer.calls < MaxCalls
    /\ lspServer.stopping.pc = "none"
    /\ lspServer' = stopOf(lspServer)
    /\ GatewayFrame

\* stop(), from the settling of the shutdown request to the return: the exit
\* notification, whose failure the catch swallows, then cleanup()
stopResumed(s, outcome) ==
    IF outcome = "error" \/ s.connection = 0
    THEN [Ran(cleanup(s), StopReturned(s.stopping.child, outcome, FALSE))
             EXCEPT !.stopping = NoCall]
    ELSE [Ran(cleanup(Write(s, "notification", "exit")),
              StopReturned(s.stopping.child, outcome, TRUE))
             EXCEPT !.stopping = NoCall]

StopSettles(outcome) ==
    /\ lspServer.stopping.pc = "awaiting"
    /\ CanSettle(lspServer, lspServer.stopping.conn, outcome)
    /\ lspServer' = stopResumed(lspServer, outcome)
    /\ GatewayFrame

\* the child p exits: its "exit" listener runs cleanup() on the fields as they
\* are then
ChildExit(p) ==
    /\ p \in DOMAIN lspServer.procs
    /\ ~lspServer.procs[p].exited
    /\ lspServer' = Ran(cleanup([lspServer EXCEPT !.procs[p].exited = TRUE]),
                        [op |-> "exit", child |-> p])
    /\ GatewayFrame

\* the connection c, ended or left by its child, closes: its onClose listener
\* runs cleanup() on the fields as they are then
ConnectionClose(c) ==
    /\ c \in DOMAIN lspServer.conns
    /\ ~lspServer.conns[c].closed
    /\ lspServer.conns[c].ended \/ lspServer.procs[c].exited
    /\ lspServer' = Ran(cleanup([lspServer EXCEPT !.conns[c].closed = TRUE]),
                        [op |-> "close", conn |-> c])
    /\ GatewayFrame

\* the callback of setTimeout in cleanup(): it reads this.childProcess when it
\* runs
forceKill(s) ==
    IF s.childProcess # 0 /\ ~s.procs[s.childProcess].killed
    THEN [Kill(s, "SIGKILL") EXCEPT !.timers = Tail(@)]
    ELSE [s EXCEPT !.timers = Tail(@)]

ForceKillTimer ==
    /\ lspServer.timers # <<>>
    /\ lspServer' = Ran(forceKill(lspServer), [op |-> "timer"])
    /\ GatewayFrame

NextGateway ==
    \/ start
    \/ initialize
    \/ \E o \in Outcomes : InitializeSettles(o)
    \/ \E m \in RequestMethods : sendRequest(m)
    \/ \E o \in Outcomes : RequestSettles(o)
    \/ \E m \in NotificationMethods : sendNotification(m)
    \/ stop
    \/ \E o \in Outcomes : StopSettles(o)
    \/ \E p \in 1..MaxSpawns : ChildExit(p)
    \/ \E c \in 1..MaxSpawns : ConnectionClose(c)
    \/ ForceKillTimer

SpecGateway == InitGateway /\ [][NextGateway]_vars

(***************************************************************************)
(* The diagnostics path: publishDiagnostics notifications of the two       *)
(* backends, the handlers setupNotificationForwarding registers for them,  *)
(* and the editor connection they are forwarded to.                        *)
(***************************************************************************)
\* publishDiagnostics notifications of the backends per behaviour
MaxDiagnostics == 3

\* the params the backends publish: a uri and its list of diagnostics
DiagnosticLists == {<<>>, <<"unused">>, <<"unused", "type">>}

PublishParams ==
    {[uri |-> u, diagnostics |-> d] : u \in {SvelteUri, TsUri}, d \in DiagnosticLists}

\* what the editor holds for a uri: nothing yet, or the diagnostics it was sent
NothingHeld == [known |-> FALSE]

Held(diagnostics) == [known |-> TRUE, diagnostics |-> diagnostics]

\* the proxy before start(): no handler registered with a gateway, nothing
\* received, nothing sent to the editor, which holds no diagnostics
NewForwarding ==
    [phase |-> "on",
     handlers |-> [b \in Backends |-> FALSE],
     received |-> <<>>,
     sent |-> <<>>,
     held |-> [u \in {SvelteUri, TsUri} |-> NothingHeld]]

InitDiagnostics ==
    /\ InitProxy
    /\ routing = [phase |-> "off"]
    /\ dedup = [phase |-> "off"]
    /\ parsing = Off
    /\ lspServer = Off
    /\ forwarding = NewForwarding
    /\ configuring = Off
    /\ handshake = Off
    /\ pool = Off

\* setupNotificationForwarding (called by start() once both gateways are
\* started): onDiagnostic registers one handler per gateway
setupNotificationForwarding ==
    /\ \A b \in Backends : ~forwarding.handlers[b]
    /\ forwarding' = [forwarding EXCEPT !.handlers = [b \in Backends |-> TRUE]]
    /\ UNCHANGED <<proxyVars, routing, dedup, parsing, lspServer,
                   configuring, handshake, pool>>

\* the editor's side of connection.sendDiagnostics(params): the diagnostics of
\* params.uri are replaced
EditorReceives(f, params) ==
    [f EXCEPT !.sent = Append(@, params), !.held[params.uri] = Held(params.diagnostics)]

\* variant: the diagnostics of a uri are added to those the editor has for it
forwardDiagnosticsMerged(f, params) ==
    IF ~f.held[params.uri].known THEN EditorReceives(f, params)
    ELSE EditorReceives(f, [uri |-> params.uri,
                            diagnostics |-> f.held[params.uri].diagnostics
                                              \o params.diagnostics])

\* the handler registered for either gateway: this.connection.sendDiagnostics(params)
forwardDiagnostics(f, params) == EditorReceives(f, params)

\* backend b publishes diagnostics: the handler of onDiagnostic logs and calls
\* the handler registered by the proxy
onDiagnostic(b, params) ==
    /\ forwarding.handlers[b]
    /\ Len(forwarding.received) < MaxDiagnostics
    /\ forwarding' =
          forwardDiagnostics([forwarding EXCEPT !.received =
                                 Append(@, [backend |-> b, params |-> params])],
                             params)
    /\ UNCHANGED <<proxyVars, routing, dedup, parsing, lspServer,
                   configuring, handshake, pool>>

NextDiagnostics ==
    \/ setupNotificationForwarding
    \/ \E b \in Backends, p \in PublishParams : onDiagnostic(b, p)

SpecDiagnostics == InitDiagnostics /\ [][NextDiagnostics]_vars

(***************************************************************************)
(* ProxyServer: workspace/didChangeConfiguration.                          *)
(***************************************************************************)
\* the number of configuration notifications the editor sends
MaxConfigs == 2

ConfigurationMethod == "workspace/didChangeConfiguration"

\* initialConfig of onInitialized
InitialConfig == [settings |-> "initial", plugins |-> <<>>]

\* the settings with typescript.plugins set, as onInitialized sends them to
\* the TypeScript server
WithSveltePlugin(config) == [config EXCEPT !.plugins = <<"typescript-svelte-plugin">>]

\* the params of the notifications the editor sends
ConfigParams ==
    {[settings |-> "a", plugins |-> <<>>], [settings |-> "b", plugins |-> <<"p">>]}

ConfigNotification(params) == [method |-> ConfigurationMethod, params |-> params]

\* the proxy after its constructor: onInitialize and onInitialized are
\* registered, onDidChangeConfiguration is not
NewConfiguring ==
    [phase |-> "on",
     listening |-> FALSE,
     gateway |-> [b \in Backends |-> NewGateway],
     registered |-> FALSE,
     sent |-> <<>>,
     written |-> [b \in Backends |-> <<>>]]

InitConfiguration ==
    /\ InitProxy
    /\ routing = Off
    /\ dedup = Off
    /\ parsing = Off
    /\ lspServer = Off
    /\ forwarding = Off
    /\ configuring = NewConfiguring
    /\ handshake = Off
    /\ pool = Off

ConfigurationFrame ==
    UNCHANGED <<proxyVars, routing, dedup, parsing, lspServer, forwarding, handshake,
                pool>>

\* sendNotification of the gateway of backend b
ConfigSend(c, b, params) ==
    [c EXCEPT !.written[b] =
        SendNotification(c.gateway[b], c.written[b], ConfigNotification(params))]

\* ProxyServer.start()
startProxy ==
    /\ ~configuring.listening
    /\ configuring' = [configuring EXCEPT
                          !.listening = TRUE,
                          !.gateway = [b \in Backends |-> GatewayStart(configuring.gateway[b])]]
    /\ ConfigurationFrame

\* onInitialized: the initial configuration goes to both gateways (with the
\* plugin entry for the TypeScript server), then the handler of
\* onDidChangeConfiguration is registered
onInitialized ==
    /\ configuring.listening
    /\ ~configuring.registered
    /\ configuring' =
          [ConfigSend(ConfigSend(configuring, Svelte, InitialConfig),
                      TypeScript, WithSveltePlugin(InitialConfig))
              EXCEPT !.registered = TRUE]
    /\ ConfigurationFrame

\* variant: the change is sent to the TypeScript server the way the initial
\* configuration is, with the plugin entry
forwardConfigurationWithPlugin(c, change) ==
    ConfigSend(ConfigSend(c, Svelte, change), TypeScript, WithSveltePlugin(change))

\* the handler registered by onInitialized
forwardConfiguration(c, change) ==
    ConfigSend(ConfigSend(c, Svelte, change), TypeScript, change)

\* the editor sends workspace/didChangeConfiguration: the connection calls
\* the registered handler, and drops the notification when there is none
onDidChangeConfiguration(change) ==
    /\ configuring.listening
    /\ Len(configuring.sent) < MaxConfigs
    /\ configuring' =
          IF configuring.registered
          THEN forwardConfiguration([configuring EXCEPT !.sent = Append(@, change)], change)
          ELSE [configuring EXCEPT !.sent = Append(@, change)]
    /\ ConfigurationFrame

\* the child process of backend b exits: cleanup()
backendExit(b) ==
    /\ configuring.gateway[b].childProcess # Null
    /\ configuring' = [configuring EXCEPT !.gateway[b] = GatewayCleanup(@)]
    /\ ConfigurationFrame

NextConfiguration ==
    \/ startProxy
    \/ onInitialized
    \/ \E change \in ConfigParams : onDidChangeConfiguration(change)
    \/ \E b \in Backends : backendExit(b)

SpecConfiguration == InitConfiguration /\ [][NextConfiguration]_vars

(***************************************************************************)
(* ProxyServer.onInitialize: the handshake with both backends.             *)
(***************************************************************************)
\* what a backend answers to initialize: an InitializeResult, a null result,
\* or an error
InitializeOutcomes == {"capabilities", "null", "error"}

\* one call of LSPServerProcess.initialize made by onInitialize
NotCalled == [state |-> "none", value |-> "none"]

AwaitingCall == [state |-> "awaiting", value |-> "none"]

Resolved(value) == [state |-> "resolved", value |-> value]

Rejected == [state |-> "rejected", value |-> "none"]

\* the proxy after its constructor: no gateway started, no handshake asked
\* for; written is what each backend was sent, settled how the initialize
\* requests settled, in that order
NewHandshake ==
    [phase |-> "on",
     listening |-> FALSE,
     gateway |-> [b \in Backends |-> NewGateway],
     pc |-> "idle",
     call |-> [b \in Backends |-> NotCalled],
     response |-> "none",
     written |-> [b \in Backends |-> <<>>],
     settled |-> <<>>]

InitHandshake ==
    /\ InitProxy
    /\ routing = Off
    /\ dedup = Off
    /\ parsing = Off
    /\ lspServer = Off
    /\ forwarding = Off
    /\ configuring = Off
    /\ handshake = NewHandshake
    /\ pool = Off

HandshakeFrame ==
    UNCHANGED <<proxyVars, routing, dedup, parsing, lspServer, forwarding, configuring,
                pool>>

\* ProxyServer.start()
startBackends ==
    /\ ~handshake.listening
    /\ handshake' = [handshake EXCEPT
                        !.listening = TRUE,
                        !.gateway = [b \in Backends |-> GatewayStart(handshake.gateway[b])]]
    /\ HandshakeFrame

\* LSPServerProcess.initialize of backend b up to its await: it throws when
\* there is no connection, else the initialize request is written
callInitialize(h, b) ==
    IF h.gateway[b].connection = Null
    THEN [h EXCEPT !.call[b] = Rejected]
    ELSE [h EXCEPT !.call[b] = AwaitingCall,
                   !.written[b] = Append(@, "initialize")]

\* LSPServerProcess.initialize of backend b from the settling of the request:
\* the initialized notification (a TypeError once cleanup() has nulled the
\* connection), isInitialized = true, return result
resumeInitialize(h, b, outcome) ==
    IF outcome = "error" \/ h.gateway[b].connection = Null
    THEN [h EXCEPT !.call[b] = Rejected]
    ELSE [h EXCEPT !.call[b] = Resolved(outcome),
                   !.written[b] = Append(@, "initialized"),
                   !.gateway[b].isInitialized = TRUE]

\* variant: a failed initialization counts as one without capabilities
settleAllSwallowing(h) ==
    IF h.pc # "awaiting" THEN h
    ELSE IF \E b \in Backends : h.call[b].state = "awaiting" THEN h
    ELSE IF \E b \in Backends : h.call[b] = Resolved("null")
    THEN [h EXCEPT !.pc = "done", !.response = "error"]
    ELSE [h EXCEPT !.pc = "done", !.response = "result"]

\* onInitialize after `await Promise.all([...])`: the promise rejects with the
\* first call that rejects and resolves once both calls have resolved; then
\* mergeCapabilities reads .capabilities of both results (a TypeError on a
\* null result) and the handler returns
settleAll(h) ==
    IF h.pc # "awaiting" THEN h
    ELSE IF \E b \in Backends : h.call[b].state = "rejected"
    THEN [h EXCEPT !.pc = "done", !.response = "error"]
    ELSE IF \E b \in Backends : h.call[b].state = "awaiting" THEN h
    ELSE IF \E b \in Backends : h.call[b] = Resolved("null")
    THEN [h EXCEPT !.pc = "done", !.response = "error"]
    ELSE [h EXCEPT !.pc = "done", !.response = "result"]

\* onInitialize: both initialize calls are made before the handler awaits
onInitialize ==
    /\ handshake.listening
    /\ handshake.pc = "idle"
    /\ handshake' =
          settleAll(callInitialize(callInitialize([handshake EXCEPT !.pc = "awaiting"],
                                                  Svelte),
                                   TypeScript))
    /\ HandshakeFrame

\* the initialize request of backend b settles
initializeSettles(b, outcome) ==
    /\ handshake.call[b].state = "awaiting"
    /\ handshake' =
          settleAll(resumeInitialize(
              [handshake EXCEPT !.settled = Append(@, Settlement(b, outcome))],
              b, outcome))
    /\ HandshakeFrame

\* the child process of backend b exits: cleanup()
backendExits(b) ==
    /\ handshake.gateway[b].childProcess # Null
    /\ handshake' = [handshake EXCEPT !.gateway[b] = GatewayCleanup(@)]
    /\ HandshakeFrame

NextHandshake ==
    \/ startBackends
    \/ onInitialize
    \/ \E b \in Backends, o \in InitializeOutcomes : initializeSettles(b, o)
    \/ \E b \in Backends : backendExits(b)

SpecHandshake == InitHandshake /\ [][NextHandshake]_vars

(***************************************************************************)
(* ProxyServer: feature requests in progress at the same time.             *)
(*                                                                         *)
(* The connection starts a handler for every request it reads; a handler   *)
(* that awaits a backend leaves the event loop to the other handlers, to   *)
(* the lifecycle events and to the responses of the backends, which the    *)
(* gateway's connection matches to their requests by id.                   *)
(***************************************************************************)
\* the number of feature requests the editor sends
MaxRequests == 2

\* the handlers taken: one that awaits its calls one after another and one
\* that awaits a Promise.all
PendingMethods == {"completion", "documentSymbol"}

\* how a call settles: with a null result or with an error
PendingOutcomes == {Null, Reject}

\* the documents the editor works on: a composite one and a typed-script one
PendingUris == {SvelteUri, TsUri}

PendingTexts == {ScriptText}

NewPool == [phase |-> "on", requests |-> <<>>]

InitPending ==
    /\ InitProxy
    /\ routing = Off
    /\ dedup = Off
    /\ parsing = Off
    /\ lspServer = Off
    /\ forwarding = Off
    /\ configuring = Off
    /\ handshake = Off
    /\ pool = NewPool

PendingFrame ==
    UNCHANGED <<proxyVars, routing, dedup, parsing, lspServer, forwarding, configuring,
                handshake>>

\* the editor sends a feature request: its handler runs to its first await or
\* to its return, whatever the handlers started before it are waiting for
handleRequest(method, uri, position) ==
    /\ listening
    /\ Len(pool.requests) < MaxRequests
    /\ pool' = [pool EXCEPT !.requests = Append(@, Invoke(method, uri, position, <<>>))]
    /\ PendingFrame

\* the handler of a request resumed with the outcome of the call to backend b
Resumed(req, b, outcome) ==
    IF req.pc = "await"
    THEN AfterOutcome(req, b, outcome, gateway, heap)
    ELSE JoinAll([req EXCEPT !.slots[b] = outcome,
                             !.settled = Append(@, Settlement(b, outcome))])

\* the call to backend b made by the i-th request settles
settleCall(i, b, outcome) ==
    /\ i \in 1..Len(pool.requests)
    /\ \/ pool.requests[i].pc = "await" /\ pool.requests[i].awaiting = b
       \/ pool.requests[i].pc = "awaitAll" /\ pool.requests[i].slots[b] = Pending
    /\ outcome \in OutcomesOf(pool.requests[i].method, gateway[b]) \cap PendingOutcomes
    /\ pool' = [pool EXCEPT !.requests[i] = Resumed(@, b, outcome)]
    /\ PendingFrame

\* the calls of the i-th request settle
settleCalls(i) == \E b \in Backends, o \in PendingOutcomes : settleCall(i, b, o)

NextPending ==
    \/ ProxyStart
    \/ \E b \in Backends : GatewayInitialize(b)
    \/ \E b \in Backends : GatewayExit(b)
    \/ \E u \in PendingUris, t \in PendingTexts : onDidOpenDocument(u, t)
    \/ \E u \in PendingUris, t \in PendingTexts : onDidChangeDocument(u, t)
    \/ \E u \in PendingUris : onDidCloseDocument(u)
    \/ \E m \in PendingMethods, u \in PendingUris, p \in RequestPositions :
          handleRequest(m, u, p)
    \/ \E i \in 1..MaxRequests : settleCalls(i)

\* every call of a backend settles in the end
SpecPending ==
    /\ InitPending
    /\ [][NextPending]_vars
    /\ \A i \in 1..MaxRequests : WF_vars(settleCalls(i))

(***************************************************************************)
(* Properties.                                                             *)
(***************************************************************************)
\* s ends with t, stated position by position
HasSuffix(s, t) ==
    \E k \in 0..Len(s) :
        /\ Len(s) = k + Len(t)
        /\ \A i \in 1..Len(t) : s[k + i] = t[i]

ScriptSuffixes == {DotTs, DotJs, DotTsx, DotJsx}

\* the index in editorEvents of the most recent event of this uri, 0 when none
LastEventIndex(uri) ==
    LET S == {i \in DOMAIN editorEvents : editorEvents[i].uri = uri}
    IN IF S = {} THEN 0 ELSE Max(S)

\* the backends whose sendRequest the request called
AskedSet(req) == {req.asked[i] : i \in DOMAIN req.asked}

TimesAsked(req, b) == Cardinality({i \in DOMAIN req.asked : req.asked[i] = b})

OtherBackend(b) == IF b = Svelte THEN TypeScript ELSE Svelte

\* this step is the handler of a lifecycle event
LifecycleStep == editorEvents' # editorEvents

\* this step is the start of a feature-request handler
RequestStep == request.pc = "idle" /\ request'.pc # "idle"

\* ---- C1 ----------------------------------------------------------------
UnknownUriStep ==
    (/\ RequestStep
     /\ request'.method \in DocumentMethods
     /\ parsedDocuments[request'.uri] = NullRef)
    => /\ request'.pc = "done"
       /\ request'.response.status = "returned"
       /\ request'.response.value \in {Null, Arr(<<>>)}
       /\ request'.asked = <<>>
       /\ request'.wired = <<>>
       /\ parsedDocuments' = parsedDocuments
       /\ heap' = heap

\* C1: a per-document feature request whose uri has no entry in the
\* parsed-document map is answered within the handler's first step with the
\* empty result ([] or null); no sendRequest is called on either gateway and
\* neither the map nor the set of ParsedDocument objects changes.
C1_UnknownUriReturnsEmpty == [][UnknownUriStep]_vars

\* a hover on a document that was opened and closed, answered null
C1_Witness ==
    /\ request.pc = "done"
    /\ request.method = "hover"
    /\ LastEventIndex(request.uri) # 0
    /\ parsedDocuments[request.uri] = NullRef
    /\ request.response = Returned(Null)
    /\ request.asked = <<>>

\* ---- C2 ----------------------------------------------------------------
\* the request consults both backends with one Promise.all
TwoBackendRequest ==
    /\ request.pc # "idle"
    /\ \/ request.method = "workspaceSymbol"
       \/ /\ request.method \in {"documentSymbol", "codeLens", "foldingRange"}
          /\ request.parsed # NullRef
          /\ HasSuffix(request.uri, DotSvelte)

\* the list L after the method's deduplication
DedupOf(method, items) ==
    IF method = "workspaceSymbol" THEN deduplicateWorkspaceSymbols(items) ELSE items

\* C2: in a handler that consults both backends, both calls are issued
\* (each exactly once) whatever happens to the other, the handler returns
\* only when both have settled, and when one call rejected while the other
\* returned a list L the response is exactly L after the method's
\* deduplication.
C2_FailureIsolation ==
    TwoBackendRequest =>
        /\ \A b \in Backends : TimesAsked(request, b) = 1
        /\ request.pc \in {"awaitAll", "done"}
        /\ request.pc = "done" =>
              \A b \in Backends : request.slots[b] \notin {Pending, Undefined}
        /\ \A b \in Backends :
              (/\ request.pc = "done"
               /\ request.slots[b] = Reject
               /\ IsArray(request.slots[OtherBackend(b)]))
              => request.response =
                    Returned(Arr(DedupOf(request.method,
                                         request.slots[OtherBackend(b)].items)))

\* documentSymbol on a composite document: the scripting backend rejected,
\* the template backend returned two symbols, which are the response
C2_Witness ==
    /\ request.pc = "done"
    /\ request.method = "documentSymbol"
    /\ request.uri = SvelteUri
    /\ request.slots[TypeScript] = Reject
    /\ request.slots[Svelte] = Arr(<<Item(1), Item(2)>>)
    /\ request.response = Returned(Arr(<<Item(1), Item(2)>>))

\* ---- C3 ----------------------------------------------------------------
\* C3: every feature request completes with a result; the handler never
\* rejects or throws towards the editor, whatever the backends answer.
C3_NeverRejects ==
    request.pc = "done" => request.response.status = "returned"

\* ---- C4 ----------------------------------------------------------------
\* C4: the parsed-document map has an entry for a uri iff the most recent
\* lifecycle event of that uri was an open or a change, and the entry is the
\* parse of that event's text with that event's uri and version.
C4_MapFollowsLastEvent ==
    \A u \in Uris :
        LET k == LastEventIndex(u)
        IN IF k = 0 \/ editorEvents[k].kind = "close"
           THEN parsedDocuments[u] = NullRef
           ELSE /\ parsedDocuments[u] \in DOMAIN heap
                /\ heap[parsedDocuments[u]]
                      = parseDocument(u, editorEvents[k].text, editorEvents[k].version)
                /\ heap[parsedDocuments[u]].uri = u
                /\ heap[parsedDocuments[u]].version = editorEvents[k].version

\* a document changed to another text: the entry is the parse of the new
\* text, and a closed document has no entry
C4_Witness ==
    \E u \in Uris :
        /\ Len(editorEvents) = 2
        /\ editorEvents[1].uri = u
        /\ editorEvents[2] = [kind |-> "change", uri |-> u, version |-> 2,
                              text |-> ScriptText]
        /\ editorEvents[1].text = PlainText
        /\ parsedDocuments[u] # NullRef
        /\ heap[parsedDocuments[u]].script # Undefined
        /\ heap[parsedDocuments[u]].version = 2

\* ---- C5 ----------------------------------------------------------------
\* a request is suspended on a backend call and holds a ParsedDocument
InFlight ==
    /\ request.pc \in {"await", "awaitAll"}
    /\ request.parsed # NullRef

SnapshotStep ==
    InFlight =>
        /\ request.parsed \in DOMAIN heap'
        /\ heap'[request.parsed] = request.snapshot
        /\ LifecycleStep => request' = request
        /\ request'.pc # "idle"
        /\ request'.uri = request.uri
        /\ request'.parsed = request.parsed
        /\ request'.snapshot = request.snapshot

\* C5: while a request is suspended on a backend call, the ParsedDocument it
\* looked up stays as it was at the lookup: no step changes the object it
\* holds, a lifecycle event of any uri leaves the request as it is (neither
\* aborted nor pointed at the new entry), and the request goes on with the
\* same object when it resumes.
C5_SnapshotReads == [][SnapshotStep]_vars

\* a suspended request whose document was changed or closed after the lookup
C5_Witness ==
    /\ InFlight
    /\ parsedDocuments[request.uri] # request.parsed
    /\ heap[request.parsed] = request.snapshot
    /\ editorEvents[Len(editorEvents)].uri = request.uri

\* ---- C6 ----------------------------------------------------------------
\* the notification log of backend b grew in this step
Grew(b) == notifLog'[b] # notifLog[b]

MethodOfKind(kind) ==
    CASE kind = "open" -> "textDocument/didOpen"
      [] kind = "change" -> "textDocument/didChange"
      [] kind = "close" -> "textDocument/didClose"

\* the backends that receive the lifecycle notifications of a uri, by suffix
SyncBackendsBySuffix(uri) ==
    IF HasSuffix(uri, DotSvelte) THEN {Svelte}
    ELSE IF \E x \in ScriptSuffixes : HasSuffix(uri, x) THEN {TypeScript}
    ELSE {}

ExactlyOneStep ==
    LifecycleStep =>
        LET e == editorEvents'[Len(editorEvents')]
        IN /\ Cardinality({b \in Backends : Grew(b)}) = 1
           /\ Grew(Svelte) <=> HasSuffix(e.uri, DotSvelte)

\* C6 as claimed: every lifecycle event is forwarded to exactly one
\* backend, the template backend for .svelte documents and the scripting
\* backend for the others, never to both and never to none.
C6_ExactlyOneBackend == [][ExactlyOneStep]_vars

AtMostOneStep ==
    LifecycleStep =>
        LET k == Len(editorEvents')
            e == editorEvents'[k]
        IN \A b \in Backends :
              IF b \in SyncBackendsBySuffix(e.uri) /\ gateway[b].connection # Null
              THEN /\ Len(notifLog'[b]) = Len(notifLog[b]) + 1
                   /\ SubSeq(notifLog'[b], 1, Len(notifLog[b])) = notifLog[b]
                   /\ notifLog'[b][Len(notifLog'[b])].uri = e.uri
                   /\ notifLog'[b][Len(notifLog'[b])].method = MethodOfKind(e.kind)
              ELSE notifLog'[b] = notifLog[b]

\* C6 amended: a lifecycle event is handed to the template backend alone
\* when the uri ends in .svelte, to the scripting backend alone when it ends
\* in .ts, .js, .tsx or .jsx, and to no backend for any other uri; the
\* notification is written only if that backend's gateway has a connection.
C6_AtMostOneBackendBySuffix == [][AtMostOneStep]_vars

\* an event of a .mjs document reached no backend, an event of a .svelte
\* document reached the template backend only
C6_Witness ==
    /\ Len(editorEvents) = 2
    /\ {editorEvents[i].uri : i \in DOMAIN editorEvents} = {OtherUri, SvelteUri}
    /\ Len(notifLog[Svelte]) = 1
    /\ notifLog[Svelte][1].uri = SvelteUri
    /\ notifLog[TypeScript] = <<>>

\* ---- C7 ----------------------------------------------------------------
\* the last notification about this uri written to backend b, if any
LastNotified(b, uri) ==
    LET S == {i \in DOMAIN notifLog[b] : notifLog[b][i].uri = uri}
    IN IF S = {} THEN Undefined ELSE notifLog[b][Max(S)]

\* C7: for every open document, each of the two backends has been sent the
\* document's latest version and text.
C7_BothBackendsSynchronized ==
    \A u \in Uris, b \in Backends :
        documents[u] # Undefined =>
            LET n == LastNotified(b, u)
            IN /\ n # Undefined
               /\ n.method \in {"textDocument/didOpen", "textDocument/didChange"}
               /\ n.version = documents[u].version
               /\ n.text = documents[u].text

\* ---- C8 ----------------------------------------------------------------
\* every notification in a log is the one of the event its seq names, and
\* the notifications of a log follow the order of the editor's events
InEditorOrder ==
    \A b \in Backends :
        /\ \A i \in DOMAIN notifLog[b] :
              LET n == notifLog[b][i]
              IN /\ n.seq \in DOMAIN editorEvents
                 /\ editorEvents[n.seq].uri = n.uri
                 /\ MethodOfKind(editorEvents[n.seq].kind) = n.method
                 /\ n.method # "textDocument/didClose" =>
                       /\ n.version = editorEvents[n.seq].version
                       /\ n.text = editorEvents[n.seq].text
        /\ \A i, j \in DOMAIN notifLog[b] :
              i < j => notifLog[b][i].seq < notifLog[b][j].seq

\* a notification is written in the step that handles its event and in no other
SynchronousStep ==
    \A b \in Backends :
        Grew(b) =>
            /\ LifecycleStep
            /\ Len(notifLog'[b]) = Len(notifLog[b]) + 1
            /\ SubSeq(notifLog'[b], 1, Len(notifLog[b])) = notifLog[b]
            /\ notifLog'[b][Len(notifLog'[b])].seq = Len(editorEvents')
            /\ request.pc \in {"await", "awaitAll"} => request' = request

\* C8: the lifecycle notifications a backend receives are in the order in
\* which the editor issued their events, and each is written inside the
\* handler step of its own event, before any later event or any request
\* continuation runs.
C8_InOrderAndSynchronous == [][SynchronousStep /\ InEditorOrder']_vars

\* the template backend received didOpen then didClose of one document
C8_Witness ==
    /\ Len(notifLog[Svelte]) = 2
    /\ notifLog[Svelte][1].method = "textDocument/didOpen"
    /\ notifLog[Svelte][2].method = "textDocument/didClose"
    /\ notifLog[Svelte][1].uri = notifLog[Svelte][2].uri

\* ---- C9 ----------------------------------------------------------------
\* C9: isSvelteFile and shouldUseSvelteServer hold exactly for the uris that
\* end in .svelte, shouldUseTypeScriptServer exactly for those that end in
\* .ts, .js, .tsx or .jsx (never for .svelte), at every position and with no
\* position, whatever the content.
C9_RoutingBySuffixAlone ==
    routing.phase = "routed" =>
        LET sv == HasSuffix(routing.uri, DotSvelte)
            ts == \E x \in ScriptSuffixes : HasSuffix(routing.uri, x)
        IN /\ routing.isSvelteFile = sv
           /\ \A i \in DOMAIN RoutePositions :
                 /\ routing.useSvelte[i] = sv
                 /\ routing.useTypeScript[i] = ts
           /\ sv => \A i \in DOMAIN RoutePositions : ~routing.useTypeScript[i]

\* a .svelte document with a script block, asked about a position inside
\* the script: template backend yes, scripting backend no
C9_Witness ==
    /\ routing.phase = "routed"
    /\ routing.uri = SvelteUri
    /\ routing.parsed.script # Undefined
    /\ isPositionInRegion(RoutePositions[3], routing.parsed.script)
    /\ routing.useSvelte[3]
    /\ ~routing.useTypeScript[3]

\* ---- C10 ---------------------------------------------------------------
\* a per-document request on a cached .svelte document has been answered
SvelteRequestDone ==
    /\ request.pc = "done"
    /\ request.method \in DocumentMethods
    /\ request.parsed # NullRef
    /\ HasSuffix(request.uri, DotSvelte)

\* C10 as claimed: every feature request on a .svelte document is routed to
\* both backends.
C10_SvelteRequestsAskBoth ==
    SvelteRequestDone => AskedSet(request) = Backends

\* C10 amended: a feature request on a cached .svelte document calls the
\* template backend (once; selection range once per position); the scripting
\* backend is called as well by document symbol, code lens and folding range,
\* may be called by formatting, and is called by no other request.
C10_SvelteRequestsAskTemplateBackend ==
    SvelteRequestDone =>
        /\ IF request.method = "selectionRange"
           THEN request.asked = [i \in 1..Len(request.positions) |-> Svelte]
           ELSE TimesAsked(request, Svelte) = 1
        /\ request.method \in {"documentSymbol", "codeLens", "foldingRange"}
              => TimesAsked(request, TypeScript) = 1
        /\ TypeScript \in AskedSet(request) =>
              request.method \in {"documentSymbol", "codeLens", "foldingRange",
                                  "formatting"}

\* a completion on a .svelte document with a script block, at a position
\* inside the script, answered after asking the template backend only
C10_Witness ==
    /\ request.pc = "done"
    /\ request.method = "completion"
    /\ request.uri = SvelteUri
    /\ request.parsed # NullRef
    /\ request.snapshot.script # Undefined
    /\ isPositionInRegion(request.position, request.snapshot.script)
    /\ request.asked = <<Svelte>>
    /\ request.wired = <<Svelte>>
    /\ request.response = Returned(Arr(<<CompA, CompB>>))

\* ---- C11 ---------------------------------------------------------------
\* the requests that carry one cursor position
PositionMethods ==
    {"completion", "hover", "signatureHelp", "rename", "prepareRename",
     "documentHighlight"} \cup LocationMethods

\* a position-carrying request on a cached .svelte document has been answered
SveltePositionRequestDone ==
    /\ request.pc = "done"
    /\ request.method \in PositionMethods
    /\ request.parsed # NullRef
    /\ HasSuffix(request.uri, DotSvelte)

\* C11: on a .svelte document, a request whose position lies inside a
\* <script> block is routed to the scripting backend (and only to it); a
\* request whose position lies in the markup or in a <style> block is routed
\* to the template backend (and only to it).
C11_PositionBasedRouting ==
    SveltePositionRequestDone =>
        IF getRegionAtPosition(request.snapshot, request.position).type = "script"
        THEN AskedSet(request) = {TypeScript}
        ELSE AskedSet(request) = {Svelte}

\* ---- C12 ---------------------------------------------------------------
\* the items of L at the indices in I, in the order of L
RECURSIVE ItemsAt(_, _, _)
ItemsAt(L, I, i) ==
    IF i > Len(L) THEN <<>>
    ELSE (IF i \in I THEN <<L[i]>> ELSE <<>>) \o ItemsAt(L, I, i + 1)

\* the first occurrence of every key of L, in the order of L
FirstOfEveryKey(L, Key(_)) ==
    ItemsAt(L, {i \in 1..Len(L) : \A j \in 1..(i - 1) : Key(L[j]) # Key(L[i])}, 1)

\* the key (label, kind, detail or empty string)
CompletionTriple(item) ==
    <<Field(item, "label"), Field(item, "kind"),
      IF Field(item, "detail") \in {Undefined, Null} THEN Str(<<>>)
      ELSE Field(item, "detail")>>

\* the items an answer contributes: the list itself, or the items field of
\* a list wrapper
ItemsOfAnswer(outcome) ==
    IF outcome \in {Reject, Null, Undefined} THEN <<>>
    ELSE IF IsArray(outcome) THEN outcome.items
    ELSE IF "items" \in DOMAIN outcome THEN outcome.items
    ELSE <<>>

RECURSIVE ContributionFrom(_, _, _)
\* what the calls to backend b contributed, in the order they settled
ContributionFrom(settled, b, i) ==
    IF i > Len(settled) THEN <<>>
    ELSE (IF settled[i].backend = b THEN ItemsOfAnswer(settled[i].outcome) ELSE <<>>)
         \o ContributionFrom(settled, b, i + 1)

Contribution(req, b) == ContributionFrom(req.settled, b, 1)

DifferOnlyInEmptyDetail(x, y) ==
    /\ Field(x, "label") = Field(y, "label")
    /\ Field(x, "kind") = Field(y, "kind")
    /\ {Field(x, "detail"), Field(y, "detail")} \subseteq {Undefined, Str(<<>>)}

\* C13: deduplicateCompletions applied to its own result returns that result;
\* the result is a subsequence of the list, holds the first item of every
\* key and no key twice; of two items that differ only in the detail being
\* undefined or the empty string only the first is kept.
C13_DedupIdempotent ==
    dedup.phase = "twice" =>
        /\ dedup.twice = dedup.once
        /\ \E I \in SUBSET (1..Len(dedup.list)) : dedup.once = ItemsAt(dedup.list, I, 1)
        /\ dedup.once = FirstOfEveryKey(dedup.list, CompletionTriple)
        /\ \A a, b \in 1..Len(dedup.once) :
              a < b => /\ CompletionTriple(dedup.once[a]) # CompletionTriple(dedup.once[b])
                       /\ ~DifferOnlyInEmptyDetail(dedup.once[a], dedup.once[b])

\* foo, bar, foo with an empty detail: the third item is dropped, once and
\* for all
C13_Witness ==
    /\ dedup.phase = "twice"
    /\ dedup.list = <<CompA, CompB, CompAEmptyDetail>>
    /\ dedup.once = <<CompA, CompB>>
    /\ dedup.twice = <<CompA, CompB>>

\* ---- C14 ---------------------------------------------------------------
\* the key (uri, range.start.line, range.start.character)
LocationTriple(location) ==
    <<location.uri, location.range.start.line, location.range.start.character>>

\* every item is a Location (it has a range)
AllLocations(items) ==
    \A i \in 1..Len(items) : "range" \in DOMAIN items[i]

SymbolKeyTuple(symbol) ==
    <<symbol.name, symbol.kind, symbol.location.uri,
      symbol.location.range.start.line, symbol.location.range.start.character>>

\* the items of an answer that is a list, nothing otherwise
ListItems(outcome) == IF outcome.type = "array" THEN outcome.items ELSE <<>>

\* C15: a workspace-symbol request calls both backends (each once, before
\* either has answered) whatever documents are open, and returns when both
\* calls have settled; the response is the first occurrence of every key
\* (name, kind, uri, start line, start character) of the scripting backend's
\* symbols followed by the template backend's symbols, so no key occurs twice
\* in it, in whichever order the two answers arrived.
C15_WorkspaceSymbolMerge ==
    (request.pc # "idle" /\ request.method = "workspaceSymbol") =>
        /\ request.asked = <<TypeScript, Svelte>>
        /\ request.pc \in {"awaitAll", "done"}
        /\ request.pc = "done" =>
              LET merged == FirstOfEveryKey(
                                ListItems(request.slots[TypeScript])
                                    \o ListItems(request.slots[Svelte]),
                                SymbolKeyTuple)
              IN /\ request.response = Returned(Arr(merged))
                 /\ \A a, b \in 1..Len(request.response.value.items) :
                       a < b => SymbolKeyTuple(request.response.value.items[a])
                                  # SymbolKeyTuple(request.response.value.items[b])

\* no document is open; the template backend answered first with y and x,
\* the scripting backend then with x and y: the response is x and y as the
\* scripting backend reported them
C15_Witness ==
    /\ request.pc = "done"
    /\ request.method = "workspaceSymbol"
    /\ \A u \in Uris : documents[u] = Undefined
    /\ request.settled = <<Settlement(Svelte, Arr(<<SymB, SymAOther>>)),
                           Settlement(TypeScript, Arr(<<SymA, SymB>>))>>
    /\ request.response = Returned(Arr(<<SymA, SymB>>))

\* ---- C16 ---------------------------------------------------------------
\* C16: a document-symbol request on a cached .svelte document calls both
\* backends (each once, before either has answered) and returns when both
\* calls have settled; the response is the template backend's symbols followed
\* by the scripting backend's symbols, duplicates kept, in whichever order the
\* two answers arrived.  On any other cached document only the scripting
\* backend is called and the response is its list.
C16_DocumentSymbolConcat ==
    (/\ request.pc # "idle"
     /\ request.method = "documentSymbol"
     /\ request.parsed # NullRef)
    => IF HasSuffix(request.uri, DotSvelte)
       THEN /\ request.asked = <<Svelte, TypeScript>>
            /\ request.pc \in {"awaitAll", "done"}
            /\ request.pc = "done" =>
                  request.response =
                      Returned(Arr(ListItems(request.slots[Svelte])
                                   \o ListItems(request.slots[TypeScript])))
       ELSE /\ request.asked = <<TypeScript>>
            /\ request.pc \in {"await", "done"}
            /\ request.pc = "done" =>
                  /\ Len(request.settled) = 1
                  /\ request.response =
                        Returned(Arr(ListItems(request.settled[1].outcome)))

\* on a.svelte the scripting backend answered first with two symbols, the
\* template backend then with one that the scripting backend reported too:
\* the response is the template backend's symbol, then the other two
C16_Witness ==
    /\ request.pc = "done"
    /\ request.method = "documentSymbol"
    /\ request.uri = SvelteUri
    /\ request.settled = <<Settlement(TypeScript, Arr(<<Item(1), Item(2)>>)),
                           Settlement(Svelte, Arr(<<Item(1)>>))>>
    /\ request.response = Returned(Arr(<<Item(1), Item(1), Item(2)>>))

\* ---- C17 ---------------------------------------------------------------
\* the backends a position request of this uri applies to, by suffix
ApplicableBackends(uri) ==
    (IF HasSuffix(uri, DotSvelte) THEN {Svelte} ELSE {})
    \cup (IF /\ ~HasSuffix(uri, DotSvelte)
             /\ \E x \in ScriptSuffixes : HasSuffix(uri, x)
          THEN {TypeScript} ELSE {})

\* the call settled without a result: null, or a failure
NoResult(outcome) == outcome \in {Null, Reject}

\* the calls are made one after another, each after the previous one settled
\* without a result, and no backend is called twice
OneAfterAnother(req) ==
    /\ Len(req.settled) <= Len(req.asked)
    /\ Len(req.asked) <= Len(req.settled) + 1
    /\ \A i \in 1..Len(req.settled) : req.settled[i].backend = req.asked[i]
    /\ \A i \in 1..(Len(req.asked) - 1) : NoResult(req.settled[i].outcome)
    /\ \A i, j \in 1..Len(req.asked) : i < j => req.asked[i] # req.asked[j]

\* the response is the first result, null when every applicable backend was
\* tried and none had one
FirstResultWins(req, applicable) ==
    LET n == Len(req.settled)
    IN /\ Len(req.asked) = n
       /\ IF n > 0 /\ ~NoResult(req.settled[n].outcome)
          THEN req.response = Returned(req.settled[n].outcome)
          ELSE /\ req.response = Returned(Null)
               /\ AskedSet(req) = applicable

ScriptingFirstMethods == {"rename", "signatureHelp", "prepareRename"}

\* C18: rename, signature help and prepare rename on a cached document call
\* the scripting backend first when it applies; its result, when not null, is
\* the response and the template backend is not called; the template backend
\* is called (when it applies) only after the scripting backend gave null or
\* failed; the response is null when neither had a result.
C18_ScriptingBackendFirst ==
    (/\ request.pc # "idle"
     /\ request.method \in ScriptingFirstMethods
     /\ request.parsed # NullRef)
    => /\ AskedSet(request) \subseteq ApplicableBackends(request.uri)
       /\ OneAfterAnother(request)
       /\ TypeScript \in AskedSet(request) => request.asked[1] = TypeScript
       /\ (/\ TypeScript \in ApplicableBackends(request.uri)
           /\ request.asked # <<>>) => request.asked[1] = TypeScript
       /\ (/\ Len(request.settled) >= 1
           /\ request.settled[1].backend = TypeScript
           /\ ~NoResult(request.settled[1].outcome))
          => /\ request.pc = "done"
             /\ request.response = Returned(request.settled[1].outcome)
             /\ Svelte \notin AskedSet(request)
       /\ request.pc \in {"await", "done"}
       /\ request.pc = "done" =>
             FirstResultWins(request, ApplicableBackends(request.uri))

\* a rename on b.ts: the scripting backend answered, its answer is the
\* response and the template backend was not called
C18_Witness ==
    /\ request.pc = "done"
    /\ request.method = "rename"
    /\ request.uri = TsUri
    /\ request.settled = <<Settlement(TypeScript, ObjectResult(1))>>
    /\ request.asked = <<TypeScript>>
    /\ request.response = Returned(ObjectResult(1))

\* ---- C19 ---------------------------------------------------------------
\* a property that is present and not the empty string
Present(o, f) == f \in DOMAIN o /\ o[f] \notin {Null, Undefined, Str(<<>>)}

\* the answer carries added information: detail, documentation or
\* additionalTextEdits for a completion item, a command for a code lens
CarriesInfo(method, outcome) ==
    /\ ~NoResult(outcome)
    /\ IF method = "completionResolve"
       THEN \/ Present(outcome, "detail")
            \/ Present(outcome, "documentation")
            \/ Present(outcome, "additionalTextEdits")
       ELSE Present(outcome, "command")

\* C19: completion-item resolve and code-lens resolve call the scripting
\* backend first; its answer is the response, and the template backend is not
\* called, exactly when the answer carries added information; otherwise the
\* template backend is called and its answer, when not null, is the response;
\* when both fail or answer nothing the response is the item as it was sent.
C19_ResolveFallback ==
    (request.pc # "idle" /\ request.method \in ResolveMethods) =>
        LET n == Len(request.settled)
        IN /\ request.asked \in {<<TypeScript>>, <<TypeScript, Svelte>>}
           /\ n <= Len(request.asked)
           /\ Len(request.asked) <= n + 1
           /\ \A i \in 1..n : request.settled[i].backend = request.asked[i]
           /\ request.pc \in {"await", "done"}
           /\ n >= 1 =>
                 IF CarriesInfo(request.method, request.settled[1].outcome)
                 THEN /\ request.pc = "done"
                      /\ request.asked = <<TypeScript>>
                      /\ request.response = Returned(request.settled[1].outcome)
                 ELSE request.asked = <<TypeScript, Svelte>>
           /\ (request.pc = "done" /\ Len(request.asked) = 2) =>
                 /\ n = 2
                 /\ IF ~NoResult(request.settled[2].outcome)
                    THEN request.response = Returned(request.settled[2].outcome)
                    ELSE request.response = Returned(ResolveItemOf(request.method))

\* the scripting backend answered the item with an empty detail, the template
\* backend then the item with its documentation, which is the response
C19_Witness ==
    /\ request.pc = "done"
    /\ request.method = "completionResolve"
    /\ request.settled = <<Settlement(TypeScript, CompAEmptyDetail),
                           Settlement(Svelte, CompAResolved)>>
    /\ request.response = Returned(CompAResolved)

\* ---- C20 ---------------------------------------------------------------
\* a selection-range request on a cached document
SelectionRequest ==
    /\ request.pc # "idle"
    /\ request.method = "selectionRange"
    /\ request.parsed # NullRef

RECURSIVE FirstItems(_, _)
\* the first item of every answer that is a list with items, in the order of
\* the calls
FirstItems(settled, i) ==
    IF i > Len(settled) THEN <<>>
    ELSE (IF ListItems(settled[i].outcome) # <<>>
          THEN <<ListItems(settled[i].outcome)[1]>> ELSE <<>>)
         \o FirstItems(settled, i + 1)

\* one call per position, in the order of the positions, each made after the
\* previous one settled; the response holds the results in that order
OnePerPosition(req) ==
    LET k == Len(req.asked)
        n == Len(req.settled)
    IN /\ k <= Len(req.positions)
       /\ req.askedAt = SubSeq(req.positions, 1, k)
       /\ n <= k
       /\ k <= n + 1
       /\ \A i \in 1..n : req.settled[i].backend = req.asked[i]
       /\ req.pc \in {"await", "done"}
       /\ req.pc = "await" => k = n + 1
       /\ req.pc = "done" =>
             /\ k = Len(req.positions)
             /\ n = k
             /\ req.response = Returned(Arr(FirstItems(req.settled, 1)))

\* C20 as claimed: for a cached document exactly one backend sub-request is
\* issued per requested position, one after another in the order of the
\* positions, and the results are in the response in that order.
C20_OneSubRequestPerPosition ==
    SelectionRequest => OnePerPosition(request)

\* C20 amended: for a cached document whose uri ends in .svelte, .ts, .js,
\* .tsx or .jsx one sub-request per position goes to the backend of that
\* suffix, one after another in the order of the positions, and the results
\* are in the response in that order; for a cached document with any other
\* uri no sub-request is issued and the response is empty.
C20_OneSubRequestPerRoutedPosition ==
    SelectionRequest =>
        IF ApplicableBackends(request.uri) = {}
        THEN /\ request.asked = <<>>
             /\ request.pc = "done"
             /\ request.response = Returned(Arr(<<>>))
        ELSE /\ AskedSet(request) \subseteq ApplicableBackends(request.uri)
             /\ OnePerPosition(request)

\* two positions on a.svelte: the template backend answered the first call
\* with one range and the second with two; the response is the first range
\* of each, in the order of the positions
C20_Witness ==
    /\ request.pc = "done"
    /\ request.method = "selectionRange"
    /\ request.uri = SvelteUri
    /\ request.positions = <<Position(0, 9), Position(0, 0)>>
    /\ request.askedAt = request.positions
    /\ request.settled = <<Settlement(Svelte, Arr(<<Item(2)>>)),
                           Settlement(Svelte, Arr(<<Item(1), Item(2)>>))>>
    /\ request.response = Returned(Arr(<<Item(2), Item(1)>>))

(***************************************************************************)
(* C21: getRegionAtPosition returns the script region if the position is   *)
(* within it, else the module-script region if within it, else the style   *)
(* region if within it, else the template region; containment is inclusive *)
(* at both ends and lexicographic in (line, character); and a position     *)
(* before the inner content of the first tag of the document yields the    *)
(* template region.                                                        *)
(***************************************************************************)
\* p is q or comes before q, by line and then by character
LexLeq(p, q) == p.line < q.line \/ (p.line = q.line /\ p.character <= q.character)

\* the region is present and p lies in [start, end], both ends included
Within(p, region) ==
    /\ region # Undefined
    /\ LexLeq(region.start, p)
    /\ LexLeq(p, region.end)

\* script before module script before style before template
ByPriority(parsed, p) ==
    IF Within(p, parsed.script) THEN parsed.script
    ELSE IF Within(p, parsed.moduleScript) THEN parsed.moduleScript
    ELSE IF Within(p, parsed.style) THEN parsed.style
    ELSE parsed.template

\* the offset of the first character after the ">" of the opening tag of a match
InnerStart(m, name) == m.lastIndex - Len(CloseTag(name)) - Len(m.content)

\* the offsets at which the inner content of the first script and of the first
\* style of the text begin
InnerStarts(text) ==
    {InnerStart(TagExec(text, 0, name), name) :
        name \in {n \in {ScriptName, StyleName} : TagExec(text, 0, n).found}}

\* p comes before the inner content of every tag of the text
BeforeFirstInner(text, p) ==
    /\ InnerStarts(text) # {}
    /\ LexLeq(p, offsetToPosition(text, Min(InnerStarts(text))))
    /\ p # offsetToPosition(text, Min(InnerStarts(text)))

\* C21: the region returned is the first of script, module script, style whose
\* span holds the position, the template otherwise, and it is the template
\* for every position before the inner content of the first tag
C21_RegionAtPosition ==
    parsing.phase = "located" =>
        /\ parsing.region = ByPriority(parsing.parsed, parsing.position)
        /\ (BeforeFirstInner(parsing.content, parsing.position)
                => parsing.region.type = "template")

\* C21, the part about getRegionAtPosition alone: priority and containment
C21_PriorityAndContainment ==
    parsing.phase = "located" =>
        parsing.region = ByPriority(parsing.parsed, parsing.position)

(***************************************************************************)
(* C22: for every input text parseDocument returns a template region from  *)
(* (0,0) to (last line index, length of the last line) whose content is    *)
(* the whole input, whatever script and style regions it found; and for a  *)
(* text without a recognized script or style tag (malformed and unclosed   *)
(* tags included) script, moduleScript and style are all absent.           *)
(***************************************************************************)
\* the opening tag of name that begins at i is ended by the ">" at g: the name
\* is followed by that ">", or by white space and then no other ">" before it
OpeningEndsAt(text, i, name, g) ==
    /\ text[g] = ">"
    /\ \/ g = i + Len(name) + 1
       \/ /\ IsSpace(text[i + Len(name) + 1])
          /\ \A k \in (i + Len(name) + 1)..(g - 1) : text[k] # ">"

\* the text holds an opening tag of name, in any case, that is ended by a ">"
\* and followed somewhere by the closing tag of name
Recognized(text, name) ==
    \E i \in 1..Len(text) :
        /\ MatchesAtCI(text, i, OpenTag(name))
        /\ \E g \in (i + Len(name) + 1)..Len(text) :
               /\ OpeningEndsAt(text, i, name, g)
               /\ \E c \in (g + 1)..Len(text) : MatchesAtCI(text, c, CloseTag(name))

\* the number of characters after the last newline of the text
AfterLastNewline(text) ==
    Cardinality({i \in 1..Len(text) : \A k \in i..Len(text) : text[k] # "\n"})

\* the template region that covers the whole text
WholeText(text) ==
    [type |-> "template",
     start |-> [line |-> 0, character |-> 0],
     end |-> [line |-> Cardinality({i \in 1..Len(text) : text[i] = "\n"}),
              character |-> AfterLastNewline(text)],
     content |-> text]

\* C22: the template region always covers the whole input, and a text without
\* a recognized script or style tag has no script, moduleScript or style
C22_TemplateCoversAll ==
    parsing.phase \in {"parsed", "located"} =>
        /\ parsing.parsed.template = WholeText(parsing.content)
        /\ (~Recognized(parsing.content, ScriptName)
              /\ ~Recognized(parsing.content, StyleName))
            => /\ parsing.parsed.script = Undefined
               /\ parsing.parsed.moduleScript = Undefined
               /\ parsing.parsed.style = Undefined

\* a text that opens a script tag, yet holds no recognized tag, has been parsed
C22_Witness ==
    /\ parsing.phase = "parsed"
    /\ MatchesAtCI(parsing.content, 1, OpenTag(ScriptName))
    /\ ~Recognized(parsing.content, ScriptName)
    /\ parsing.parsed.template.content = parsing.content
    /\ parsing.parsed.script = Undefined

(***************************************************************************)
(* C23: script assignment in parseDocument. As stated: the module-tagged   *)
(* script match becomes moduleScript and the first script match without    *)
(* the module marker becomes script, later ones being dropped. As the      *)
(* source has it: every match overwrites the field of its kind, so the     *)
(* last match of each kind is the one kept.                                *)
(***************************************************************************)
\* the script matches of the text without and with the module marker, in the
\* order of the text
PlainScripts(text) == SelectSeq(ScriptRegions(text, 0), LAMBDA r : ~r.isModule)

ModuleScripts(text) == SelectSeq(ScriptRegions(text, 0), LAMBDA r : r.isModule)

FirstOrAbsent(regions) == IF regions = <<>> THEN Undefined ELSE regions[1]

LastOrAbsent(regions) == IF regions = <<>> THEN Undefined ELSE regions[Len(regions)]

\* with one script of each kind, each field holds the content of its own kind,
\* whichever comes first in the text
OneOfEachKind(text, parsed) ==
    (Len(PlainScripts(text)) = 1 /\ Len(ModuleScripts(text)) = 1) =>
        /\ parsed.moduleScript.content = ModuleScripts(text)[1].content
        /\ parsed.script.content = PlainScripts(text)[1].content

\* C23 as stated: script is the first match without the module marker, later
\* ones are dropped; moduleScript is a module-tagged match
C23_FirstPlainScriptKept ==
    parsing.phase \in {"parsed", "located"} =>
        /\ parsing.parsed.script = FirstOrAbsent(PlainScripts(parsing.content))
        /\ \/ parsing.parsed.moduleScript = Undefined
              /\ ModuleScripts(parsing.content) = <<>>
           \/ \E k \in DOMAIN ModuleScripts(parsing.content) :
                 parsing.parsed.moduleScript = ModuleScripts(parsing.content)[k]
        /\ OneOfEachKind(parsing.content, parsing.parsed)

\* C23 amended: script is the last match without the module marker and
\* moduleScript the last match with it, earlier ones of the same kind being
\* dropped; with one of each, each field holds the content of its own kind
C23_LastScriptOfEachKindKept ==
    parsing.phase \in {"parsed", "located"} =>
        /\ parsing.parsed.script = LastOrAbsent(PlainScripts(parsing.content))
        /\ parsing.parsed.moduleScript = LastOrAbsent(ModuleScripts(parsing.content))
        /\ OneOfEachKind(parsing.content, parsing.parsed)

\* a text with two scripts without the module marker has been parsed, and so
\* the second one is the script region
C23_Witness ==
    /\ parsing.phase = "parsed"
    /\ Len(PlainScripts(parsing.content)) = 2
    /\ PlainScripts(parsing.content)[1] # PlainScripts(parsing.content)[2]
    /\ parsing.parsed.script = PlainScripts(parsing.content)[2]

(***************************************************************************)
(* C24: start() fails with "already running" whenever the gateway holds a  *)
(* child process, leaving process, connection and initialized flag as they *)
(* are and spawning nothing; after stop() or after the exit event of the   *)
(* child has been handled, start() is accepted again and spawns a child.   *)
(***************************************************************************)
\* the step is a call of the public method op
CallOf(op) ==
    /\ lspServer'.calls = lspServer.calls + 1
    /\ lspServer'.last.op = op

\* the step changes nothing of the gateway, its children and its connections
GatewayUntouched ==
    /\ lspServer'.childProcess = lspServer.childProcess
    /\ lspServer'.connection = lspServer.connection
    /\ lspServer'.isInitialized = lspServer.isInitialized
    /\ lspServer'.procs = lspServer.procs
    /\ lspServer'.conns = lspServer.conns
    /\ lspServer'.timers = lspServer.timers

\* the step spawns one child, fresh and not signalled, and makes it and its
\* fresh connection the current ones
SpawnsOne ==
    /\ Len(lspServer'.procs) = Len(lspServer.procs) + 1
    /\ Len(lspServer'.conns) = Len(lspServer.conns) + 1
    /\ lspServer'.childProcess = Len(lspServer'.procs)
    /\ lspServer'.connection = Len(lspServer'.conns)
    /\ lspServer'.procs[lspServer'.childProcess] =
          [killed |-> FALSE, exited |-> FALSE, signals |-> <<>>]
    /\ lspServer'.conns[lspServer'.connection].sent = <<>>
    /\ \A p \in DOMAIN lspServer.procs : lspServer'.procs[p] = lspServer.procs[p]

StartStep ==
    CallOf("start") =>
        IF lspServer.childProcess # 0
        THEN lspServer'.last.result = "already running" /\ GatewayUntouched
        ELSE lspServer'.last.result = "ok" /\ SpawnsOne

\* once stop() has returned or an exit event has been handled, no child is held
NoChildAfterStopOrExit ==
    lspServer.last.op \in {"stop returned", "exit"} => lspServer.childProcess = 0

\* C24: a start() on a gateway that holds a child fails and changes nothing; a
\* start() on a gateway that holds none spawns one, and none is held after
\* stop() has returned or an exit event has been handled
C24_StartFailsWhenRunning == [][StartStep]_vars /\ []NoChildAfterStopOrExit

\* a start() refused on the second child, spawned after the first was released
C24_Witness ==
    /\ lspServer.last = [op |-> "start", result |-> "already running"]
    /\ Len(lspServer.procs) = 2
    /\ lspServer.childProcess = 2

(***************************************************************************)
(* C25: in every reachable state, sendRequest for a method other than      *)
(* "initialize" writes a request to the backend connection only if the     *)
(* gateway is started and the initialize handshake with that backend has   *)
(* completed; otherwise it fails ("not started" or "not initialized")      *)
(* without writing anything; the same holds again after stop() or after    *)
(* the child has exited.                                                   *)
(***************************************************************************)
\* the gateway holds a connection, and the initialize request written to that
\* connection has got its result
HandshakeCompleted(s) == s.connection # 0 /\ s.conns[s.connection].answered

\* the step writes nothing to any connection
NothingWritten ==
    \A c \in DOMAIN lspServer.conns : lspServer'.conns[c].sent = lspServer.conns[c].sent

\* the step writes the request to the current connection
RequestWritten(method) ==
    /\ lspServer.connection # 0
    /\ lspServer'.conns[lspServer.connection].sent =
          Append(lspServer.conns[lspServer.connection].sent,
                 [kind |-> "request", method |-> method])

SendRequestStep ==
    (CallOf("sendRequest") /\ lspServer'.last.method # "initialize") =>
        IF HandshakeCompleted(lspServer)
        THEN RequestWritten(lspServer'.last.method)
        ELSE /\ lspServer'.last.result \in {"not started", "not initialized"}
             /\ NothingWritten

\* C25: a request other than initialize is written exactly when the gateway is
\* started and the handshake on its connection has completed, and fails with
\* nothing written otherwise
C25_RequestsOnlyAfterHandshake == [][SendRequestStep]_vars

\* C25 with "initialized" read as the flag of the gateway: a request other
\* than initialize is written exactly when the connection is held and
\* isInitialized is set, and a gateway without child has the flag cleared
C25_RequestsOnlyWhenFlagged ==
    [][(CallOf("sendRequest") /\ lspServer'.last.method # "initialize") =>
          IF lspServer.connection # 0 /\ lspServer.isInitialized
          THEN RequestWritten(lspServer'.last.method)
          ELSE /\ lspServer'.last.result \in {"not started", "not initialized"}
               /\ NothingWritten]_vars
    /\ [](lspServer.childProcess = 0 => ~lspServer.isInitialized)

(***************************************************************************)
(* C26: initialize fails if the gateway is not started; on a started       *)
(* gateway it sends the initialize request, and only after the response    *)
(* has arrived does it send the "initialized" notification and then mark   *)
(* the gateway initialized, so isReady() is false from start() until the   *)
(* initialize response has been received and true afterwards; if the       *)
(* request fails, no notification is sent and the gateway stays            *)
(* uninitialized.                                                          *)
(***************************************************************************)
\* the step is the continuation of initialize() after its request settled
InitializeReturns == 
    /\ lspServer.initializing.pc = "awaiting"
    /\ lspServer'.initializing.pc = "none"

\* a call of initialize(): refused with nothing written when no connection is
\* held, else the request is written and the flag is not touched
InitializeCallStep ==
    CallOf("initialize") =>
        /\ lspServer'.isInitialized = lspServer.isInitialized
        /\ IF lspServer.connection = 0
           THEN lspServer'.last.result = "not started" /\ NothingWritten
           ELSE /\ RequestWritten("initialize")
                /\ lspServer'.initializing.pc = "awaiting"

\* the "initialized" notification is written, and the flag is set, by the
\* continuation of initialize() on a received result and by no other step
OnlyAfterResponse ==
    \/ InitializeReturns /\ lspServer'.last.result = "result"
       /\ \E c \in DOMAIN lspServer.conns : lspServer'.conns[c].answered
    \/ /\ lspServer.isInitialized \/ ~lspServer'.isInitialized
       /\ \A c \in DOMAIN lspServer.conns :
             Len(SelectSeq(lspServer'.conns[c].sent,
                           LAMBDA m : m.method = "initialized"))
               = Len(SelectSeq(lspServer.conns[c].sent,
                               LAMBDA m : m.method = "initialized"))

\* on a received result, with the connection still held: the notification is
\* written to it and the flag is set, so the gateway is ready if its child has
\* not been killed
InitializeSucceeds ==
    (InitializeReturns /\ lspServer'.last.result = "result") =>
        /\ lspServer.connection # 0
        /\ lspServer'.conns[lspServer.connection].sent =
              Append(lspServer.conns[lspServer.connection].sent,
                     [kind |-> "notification", method |-> "initialized"])
        /\ lspServer'.isInitialized
        /\ isRunning(lspServer) => isReady(lspServer')

\* on a failed request: nothing is written and the flag stays as it was
InitializeFails ==
    (InitializeReturns /\ lspServer'.last.result = "error") =>
        /\ NothingWritten
        /\ lspServer'.isInitialized = lspServer.isInitialized

\* a gateway just started is not ready
NotReadyAfterStart ==
    (CallOf("start") /\ lspServer'.last.result = "ok") => ~isReady(lspServer')

\* C26: initialize is refused when not started, writes its request when
\* started, and the notification and the flag follow the received result and
\* nothing else; isReady() is false after start() and becomes true only by
\* the continuation of initialize() on a result
C26_InitializedOnlyAfterResponse ==
    [][/\ InitializeCallStep
       /\ OnlyAfterResponse
       /\ InitializeSucceeds
       /\ InitializeFails
       /\ NotReadyAfterStart
       /\ (~isReady(lspServer) /\ isReady(lspServer'))
             => (InitializeReturns /\ lspServer'.last.result = "result")]_vars

\* initialize() has returned its result on a started gateway, which is ready
C26_Witness ==
    /\ lspServer.last = [op |-> "initialize returned", result |-> "result"]
    /\ isReady(lspServer)
    /\ lspServer.conns[lspServer.connection].sent =
          <<[kind |-> "request", method |-> "initialize"],
            [kind |-> "notification", method |-> "initialized"]>>

(***************************************************************************)
(* C27: stop() attempts the shutdown request followed by the exit          *)
(* notification (when initialized), and then forcibly terminates the child *)
(* (SIGKILL) after the grace period if that child has still not exited.    *)
(***************************************************************************)
\* a call of stop() on an initialized gateway writes the shutdown request and
\* waits for it; on any other gateway it writes nothing
StopCallStep ==
    CallOf("stop") =>
        IF lspServer.isInitialized /\ lspServer.connection # 0
        THEN RequestWritten("shutdown") /\ lspServer'.stopping.pc = "awaiting"
        ELSE NothingWritten

\* the exit notification is written by the continuation of stop() after the
\* shutdown request returned, to the connection then held
ExitAfterShutdown ==
    (lspServer.stopping.pc = "awaiting" /\ lspServer'.stopping.pc = "none"
        /\ lspServer'.last.shutdown = "result" /\ lspServer.connection # 0)
    => lspServer'.conns[lspServer.connection].sent =
          Append(lspServer.conns[lspServer.connection].sent,
                 [kind |-> "notification", method |-> "exit"])

\* the step is the force-kill timer that cleanup() set for child p
TimerOf(p) ==
    /\ lspServer.timers # <<>>
    /\ lspServer.timers[1] = p
    /\ lspServer'.timers = Tail(lspServer.timers)

\* when the timer set for a child runs and that child has not exited, the
\* child is sent SIGKILL, and no other child is signalled
ForceKillsItsChild ==
    \A p \in DOMAIN lspServer.procs :
        (TimerOf(p) /\ ~lspServer.procs[p].exited) =>
            /\ lspServer'.procs[p].signals = Append(lspServer.procs[p].signals, "SIGKILL")
            /\ \A q \in DOMAIN lspServer.procs \ {p} :
                  lspServer'.procs[q] = lspServer.procs[q]

\* C27: stop() asks for shutdown, then sends exit, and the child that has not
\* exited when the grace period ends is sent SIGKILL
C27_ForceKillAfterGrace == [][StopCallStep /\ ExitAfterShutdown /\ ForceKillsItsChild]_vars

\* C27, the graceful part alone: shutdown request, then exit notification
C27_ShutdownThenExit == [][StopCallStep /\ ExitAfterShutdown]_vars

(***************************************************************************)
(* C28: whenever stop() returns on a started gateway, initialized or not,  *)
(* shutdown request failed or not, the child has been sent SIGTERM, the    *)
(* connection has been released, isRunning() and isReady() are false, and  *)
(* the exit notification was sent only if the shutdown request succeeded.  *)
(***************************************************************************)
\* the step is a return of stop(): either the call itself, when there was
\* nothing to shut down, or its continuation
StopReturns == lspServer'.last.op = "stop returned" /\ lspServer' # lspServer

\* the child and the connection stop() was called with
StoppedChild == lspServer'.last.child

\* the connection of a child has the number of the child
Released(s, c) == s.conns[c].ended /\ s.connection # c

HasSignal(s, p, signal) == \E i \in DOMAIN s.procs[p].signals : s.procs[p].signals[i] = signal

\* the step writes an exit notification to some connection
ExitWritten ==
    \E c \in DOMAIN lspServer.conns :
        /\ lspServer'.conns[c].sent # lspServer.conns[c].sent
        /\ lspServer'.conns[c].sent[Len(lspServer'.conns[c].sent)].method = "exit"

\* what holds when stop() returns, apart from the signal
StoppedOnReturn ==
    /\ Released(lspServer', StoppedChild)
    /\ lspServer'.connection = 0
    /\ ~isRunning(lspServer')
    /\ ~isReady(lspServer')
    /\ ExitWritten => lspServer'.last.shutdown = "result"
    /\ lspServer'.last.exitSent = ExitWritten

\* C28 as stated: when stop() returns on a started gateway the child has been
\* sent SIGTERM, the connection is released, isRunning() and isReady() are
\* false, and exit was sent only after a successful shutdown
C28_StopSendsSigterm ==
    [][(StopReturns /\ StoppedChild # 0) =>
          /\ HasSignal(lspServer', StoppedChild, "SIGTERM")
          /\ StoppedOnReturn]_vars

\* C28 without the kind of the signal: when stop() returns on a started
\* gateway the child has been signalled (SIGTERM by cleanup(), or SIGKILL by a
\* force-kill timer before it), and the rest is as stated
C28_StopLeavesNothingRunning ==
    [][(StopReturns /\ StoppedChild # 0) =>
          /\ \/ HasSignal(lspServer', StoppedChild, "SIGTERM")
             \/ HasSignal(lspServer', StoppedChild, "SIGKILL")
          /\ StoppedOnReturn]_vars

(***************************************************************************)
(* C29: sendNotification on a gateway that is not started (never started,  *)
(* stopped, or whose child exited) is a no-op: it does not throw, sends    *)
(* nothing and leaves the gateway unchanged; on a started gateway it sends *)
(* the notification even before the initialize handshake has completed.    *)
(***************************************************************************)
\* the step writes the notification to the current connection and changes
\* nothing else of the gateway
NotificationWritten(method) ==
    /\ lspServer'.conns =
          [lspServer.conns EXCEPT ![lspServer.connection].sent =
              Append(@, [kind |-> "notification", method |-> method])]
    /\ lspServer'.childProcess = lspServer.childProcess
    /\ lspServer'.connection = lspServer.connection
    /\ lspServer'.isInitialized = lspServer.isInitialized
    /\ lspServer'.procs = lspServer.procs

\* C29: a sendNotification without connection returns normally and changes
\* nothing; with a connection it writes the notification, initialized or not
C29_NotificationNoOpWhenNotStarted ==
    [][CallOf("sendNotification") =>
          IF lspServer.connection = 0
          THEN lspServer'.last.result = "warned" /\ GatewayUntouched
          ELSE lspServer'.last.result = "sent"
               /\ NotificationWritten(lspServer'.last.method)]_vars

\* a notification was written to a started gateway before any handshake, and
\* a later one, after stop(), has been dropped with a warning
C29_Witness ==
    /\ lspServer.last.op = "sendNotification"
    /\ lspServer.last.result = "warned"
    /\ lspServer.connection = 0
    /\ Len(lspServer.conns) = 1
    /\ lspServer.conns[1].ended
    /\ lspServer.conns[1].sent =
          <<[kind |-> "notification", method |-> "textDocument/didOpen"]>>

(***************************************************************************)
(* C30: every publishDiagnostics notification received from either backend *)
(* after ProxyServer.start() is forwarded to the editor exactly once, with *)
(* unchanged params and in the order received; diagnostics of the two      *)
(* backends for one uri are never merged, so the editor holds for a uri    *)
(* those of whichever backend published last.                              *)
(***************************************************************************)
\* the params of the last notification received for the uri, by either backend
LastPublished(received, uri) ==
    LET S == {i \in DOMAIN received : received[i].params.uri = uri}
    IN IF S = {} THEN [known |-> FALSE]
       ELSE [known |-> TRUE, diagnostics |-> received[Max(S)].params.diagnostics]

\* C30: what was sent to the editor is, one for one and in order, what was
\* received from the backends, and the editor holds for every uri the
\* diagnostics published last for it
C30_DiagnosticsForwardedVerbatim ==
    /\ Len(forwarding.sent) = Len(forwarding.received)
    /\ \A i \in DOMAIN forwarding.received :
          forwarding.sent[i] = forwarding.received[i].params
    /\ \A u \in DOMAIN forwarding.held :
          forwarding.held[u] = LastPublished(forwarding.received, u)

\* both backends have published different diagnostics for one uri, the
\* TypeScript backend last, and the editor holds those
C30_Witness ==
    /\ Len(forwarding.received) = 2
    /\ forwarding.received[1] =
          [backend |-> Svelte,
           params |-> [uri |-> SvelteUri, diagnostics |-> <<"unused">>]]
    /\ forwarding.received[2] =
          [backend |-> TypeScript,
           params |-> [uri |-> SvelteUri, diagnostics |-> <<"unused", "type">>]]
    /\ forwarding.held[SvelteUri] = [known |-> TRUE, diagnostics |-> <<"unused", "type">>]

(***************************************************************************)
(* C31: every workspace/didChangeConfiguration notification sent by the    *)
(* editor is forwarded with unchanged params to both backends.             *)
(***************************************************************************)
\* a step in which the editor sends a configuration notification
EditorConfigures ==
    /\ configuring.phase = "on"
    /\ Len(configuring'.sent) = Len(configuring.sent) + 1

LastConfigSent == configuring'.sent[Len(configuring'.sent)]

\* C31 as stated: whenever the editor sends a configuration notification,
\* each of the two backends is sent that notification with the same params
C31_ForwardedToBothBackends ==
    [][EditorConfigures =>
          \A b \in Backends :
              configuring'.written[b] =
                  Append(configuring.written[b], ConfigNotification(LastConfigSent))]_vars

\* C31, amended: once onInitialized has registered the handler, a
\* configuration notification of the editor is written with the same params
\* to every backend whose gateway holds a connection and to no other; before
\* that nothing is written; the step changes nothing else
C31_ForwardedWhereConnected ==
    [][EditorConfigures =>
          /\ \A b \in Backends :
                configuring'.written[b] =
                    IF configuring.registered /\ configuring.gateway[b].connection # Null
                    THEN Append(configuring.written[b], ConfigNotification(LastConfigSent))
                    ELSE configuring.written[b]
          /\ configuring'.gateway = configuring.gateway
          /\ configuring'.registered = configuring.registered]_vars

\* two notifications of the editor after onInitialized: the first reached both
\* backends, the second only the template backend, the other having exited
C31_Witness ==
    /\ configuring.phase = "on"
    /\ configuring.sent = <<[settings |-> "a", plugins |-> <<>>],
                            [settings |-> "b", plugins |-> <<"p">>]>>
    /\ configuring.written[Svelte] =
          <<ConfigNotification(InitialConfig),
            ConfigNotification([settings |-> "a", plugins |-> <<>>]),
            ConfigNotification([settings |-> "b", plugins |-> <<"p">>])>>
    /\ configuring.written[TypeScript] =
          <<ConfigNotification(WithSveltePlugin(InitialConfig)),
            ConfigNotification([settings |-> "a", plugins |-> <<>>])>>
    /\ configuring.gateway[TypeScript].connection = Null

(***************************************************************************)
(* C32: the handshake sends initialize to both backends concurrently and   *)
(* succeeds only if both initializations succeed; a failed initialization  *)
(* (or a backend that is not started) makes the editor's initialize fail,  *)
(* even when the other backend has become initialized.                     *)
(***************************************************************************)
\* the handshake has been asked for: onInitialize has run to its await
HandshakeAsked == handshake.phase = "on" /\ handshake.pc # "idle"

InitializeWrittenTo(b) ==
    /\ handshake.written[b] # <<>>
    /\ handshake.written[b][1] = "initialize"

\* C32: once onInitialize has run, both initialize calls have been made (the
\* request is written to every backend that holds a connection before either
\* settles); the editor is answered with a result only if both calls resolved,
\* each on a backend that was sent initialize and then initialized; and as soon
\* as one call has rejected the editor is answered with an error
C32_HandshakeNeedsBothBackends ==
    HandshakeAsked =>
        /\ \A b \in Backends :
              /\ handshake.call[b].state # "none"
              /\ handshake.call[b].state \in {"awaiting", "resolved"} => InitializeWrittenTo(b)
              /\ handshake.written[b] = <<>> => handshake.call[b].state = "rejected"
        /\ handshake.response = "result" =>
              \A b \in Backends :
                  /\ handshake.call[b].state = "resolved"
                  /\ handshake.written[b] = <<"initialize", "initialized">>
        /\ (\E b \in Backends : handshake.call[b].state = "rejected") =>
              /\ handshake.pc = "done"
              /\ handshake.response = "error"

\* the template backend answered and is initialized, then the initialization
\* of the scripting backend failed: the editor's initialize has failed
C32_Witness ==
    /\ handshake.phase = "on"
    /\ handshake.settled = <<Settlement(Svelte, "capabilities"),
                             Settlement(TypeScript, "error")>>
    /\ handshake.gateway[Svelte].isInitialized
    /\ ~handshake.gateway[TypeScript].isInitialized
    /\ handshake.response = "error"

(***************************************************************************)
(* C33: provided every backend call issued for a feature request settles,  *)
(* the request returns a response and leaves no pending work; no in-flight *)
(* call is cancelled (not by a newer request, nor by a change or close of  *)
(* its document), and a call that never settles keeps its request pending. *)
(***************************************************************************)
RequestMade(i) == pool.phase = "on" /\ Len(pool.requests) >= i

RequestReturned(i) == RequestMade(i) /\ pool.requests[i].pc = "done"

\* the handler has returned a response and waits for nothing: every call it
\* made has settled
NoPendingWork(req) ==
    /\ req.response # Undefined
    /\ req.awaiting = ""
    /\ \A b \in Backends : req.slots[b] # Pending
    /\ Len(req.settled) = Len(req.asked)

ReturnedLeavesNothing ==
    \A i \in 1..MaxRequests : RequestReturned(i) => NoPendingWork(pool.requests[i])

\* a request that has been made stays, and changes only when one of its own
\* calls settles: not with a newer request, nor with a lifecycle event of its
\* document, nor with the exit of a backend
OnlyItsCallsMoveIt ==
    pool.phase = "on" =>
        /\ Len(pool'.requests) >= Len(pool.requests)
        /\ \A i \in 1..Len(pool.requests) :
              pool'.requests[i] # pool.requests[i] =>
                  /\ pool.requests[i].pc \in {"await", "awaitAll"}
                  /\ Len(pool'.requests[i].settled) = Len(pool.requests[i].settled) + 1

\* C33: with every backend call settling in the end, every request made
\* returns a response in the end; a returned request has no call pending; and
\* until its own call settles a pending request stays as it is
C33_RequestsEndWhenCallsSettle ==
    /\ []ReturnedLeavesNothing
    /\ [][OnlyItsCallsMoveIt]_vars
    /\ \A i \in 1..MaxRequests : RequestMade(i) ~> RequestReturned(i)

\* the first request still awaits the template backend although its document
\* has been closed since and a newer request for the same document, made
\* after the close, has been answered
C33_Witness ==
    /\ pool.phase = "on"
    /\ Len(pool.requests) = 2
    /\ pool.requests[1].pc = "await"
    /\ pool.requests[1].uri = SvelteUri
    /\ pool.requests[1].wired = <<Svelte>>
    /\ parsedDocuments[SvelteUri] = NullRef
    /\ pool.requests[2].uri = SvelteUri
    /\ pool.requests[2].method = pool.requests[1].method
    /\ pool.requests[2].parsed = NullRef
    /\ pool.requests[2].pc = "done"

(***************************************************************************)
(* C34: formatting of a cached .svelte document asks the template backend  *)
(* first and answers with its edits iff they are a non-empty list; on an   *)
(* empty list, null or failure the scripting backend is asked and its      *)
(* edits ([] on null or failure) are the answer; for every other cached    *)
(* document only the scripting backend is asked.                           *)
(***************************************************************************)
\* a formatting request on a cached document, in progress or just answered
FormattingRequest ==
    /\ request.pc # "idle"
    /\ request.method = "formatting"
    /\ request.parsed # NullRef

NonEmptyEdits(outcome) ==
    /\ outcome # Reject
    /\ outcome # Null
    /\ Len(outcome.items) > 0

\* the edits of the scripting backend, [] on null or failure
EditsOrNone(outcome) ==
    IF outcome = Reject \/ outcome = Null THEN Arr(<<>>) ELSE outcome

\* the handler has returned after the call to the scripting backend, which
\* settled as the k-th call
AnsweredByScripting(k) ==
    /\ Len(request.settled) = k
    /\ request.settled[k].backend = TypeScript
    /\ request.response = Returned(EditsOrNone(request.settled[k].outcome))

\* C34: the calls a formatting handler has made and the answer it gives
C34_FormattingFallback ==
    FormattingRequest =>
        IF isSvelteFile(request.uri)
        THEN /\ request.asked \in {<<Svelte>>, <<Svelte, TypeScript>>}
             /\ Len(request.settled) >= 1 =>
                   /\ request.settled[1].backend = Svelte
                   /\ IF NonEmptyEdits(request.settled[1].outcome)
                      THEN /\ request.asked = <<Svelte>>
                           /\ request.pc = "done"
                           /\ request.response = Returned(request.settled[1].outcome)
                      ELSE request.asked = <<Svelte, TypeScript>>
             /\ request.asked = <<Svelte, TypeScript>> => Len(request.settled) >= 1
             /\ request.pc = "done" /\ request.asked = <<Svelte, TypeScript>> =>
                   AnsweredByScripting(2)
        ELSE /\ request.asked = <<TypeScript>>
             /\ request.pc = "done" => AnsweredByScripting(1)

\* the template backend had no edits for a.svelte, the scripting backend had:
\* its edits are the answer
C34_Witness ==
    /\ request.pc = "done"
    /\ request.method = "formatting"
    /\ request.uri = SvelteUri
    /\ request.settled = <<Settlement(Svelte, Arr(<<>>)),
                           Settlement(TypeScript, Arr(<<Item(1)>>))>>
    /\ request.response = Returned(Arr(<<Item(1)>>))

(***************************************************************************)
(* C35: at most one of shouldUseSvelteServer and shouldUseTypeScriptServer *)
(* is true of a uri, so a handler gated only by the two sends at most one  *)
(* backend request per request (per position for selection range), and     *)
(* none for a cached document with neither the composite nor a scripting   *)
(* suffix.                                                                 *)
(***************************************************************************)
\* the handlers that test the two predicates and nothing else
GatedMethods ==
    {"completion", "hover", "signatureHelp", "rename", "prepareRename", "selectionRange"}
    \cup LocationMethods \cup ConcatMethods

\* a request of such a handler on a cached document, in progress or answered
GatedRequest ==
    /\ request.pc # "idle"
    /\ request.method \in GatedMethods
    /\ request.parsed # NullRef

\* the positions the predicates are applied to by the request
GatedPositions(req) ==
    IF req.method = "selectionRange"
    THEN {req.positions[i] : i \in DOMAIN req.positions}
    ELSE {req.position}

NeitherSuffix(uri) ==
    /\ ~HasSuffix(uri, DotSvelte)
    /\ \A x \in ScriptSuffixes : ~HasSuffix(uri, x)

\* C35: the two predicates never both hold of the document of the request;
\* the handler has called at most one gateway, once (once per position, in
\* the order of the positions, for selection range), the one whose predicate
\* holds; and none when the uri has neither kind of suffix
C35_AtMostOneRequestPerGatedHandler ==
    GatedRequest =>
        /\ \A p \in GatedPositions(request) :
              ~(/\ shouldUseSvelteServer(request.snapshot, p)
                /\ shouldUseTypeScriptServer(request.snapshot, p))
        /\ IF request.method = "selectionRange"
           THEN /\ Len(request.asked) <= Len(request.positions)
                /\ request.askedAt = SubSeq(request.positions, 1, Len(request.asked))
           ELSE Len(request.asked) <= 1
        /\ Len(request.wired) <= Len(request.asked)
        /\ \A i \in DOMAIN request.asked :
              IF request.asked[i] = Svelte
              THEN shouldUseSvelteServer(request.snapshot, request.askedAt[i])
              ELSE shouldUseTypeScriptServer(request.snapshot, request.askedAt[i])
        /\ Cardinality(AskedSet(request)) <= 1
        /\ NeitherSuffix(request.uri) => request.asked = <<>>

\* a code action on the cached c.mjs has been answered without a call to
\* either gateway
C35_Witness ==
    /\ request.pc = "done"
    /\ request.method = "codeAction"
    /\ request.uri = OtherUri
    /\ request.parsed # NullRef
    /\ request.asked = <<>>
    /\ request.response = Returned(Arr(<<>>))

(***************************************************************************)
(* C36: a backend is sent a textDocument feature request for a uri only if *)
(* it was sent didOpen for that uri before and no didClose since.          *)
(***************************************************************************)
\* backend b has been told about the document: the last lifecycle
\* notification written to it for this uri is not a didClose (a didChange is
\* only ever written after a didOpen)
ToldAbout(b, uri) ==
    /\ LastNotified(b, uri) # Undefined
    /\ LastNotified(b, uri).method # "textDocument/didClose"

WiredSoFar == IF request.pc = "idle" THEN <<>> ELSE request.wired

\* the backends a feature request of a document is written to in this step
NewlyWired ==
    IF request'.pc = "idle" \/ request'.method \notin DocumentMethods THEN {}
    ELSE {request'.wired[i] : i \in (Len(WiredSoFar) + 1)..Len(request'.wired)}

\* C36: whenever a request about a document is written to a backend, that
\* backend has been sent didOpen for the document and no didClose since
C36_RequestsOnlyForOpenedDocuments ==
    [][\A b \in NewlyWired : ToldAbout(b, request'.uri)]_vars

\* the part that holds: a handler gated by the two routing predicates that
\* makes a single call writes its request only to a backend that has been told
\* about the document
C36_SingleCallRequestsOnlyForOpenedDocuments ==
    [][request'.pc # "idle" /\ request'.method \in GatedMethods \ {"selectionRange"} =>
          \A b \in NewlyWired : ToldAbout(b, request'.uri)]_vars

(***************************************************************************)
(* C37: the force-kill timer armed by cleanup() for one child only ever    *)
(* affects that child: SIGKILL is never sent to a child spawned after the  *)
(* timer was armed.                                                        *)
(***************************************************************************)
\* the children are numbered in the order of their spawning, and cleanup()
\* arms the timer for the child it releases: the later children are those
\* with a greater number
SpawnedAfter(p) == {q \in DOMAIN lspServer.procs : q > p}

\* C37: the timer armed for a child leaves every child spawned later as it is
C37_TimerSparesLaterChildren ==
    [][\A p \in DOMAIN lspServer.procs :
          TimerOf(p) => \A q \in SpawnedAfter(p) : lspServer'.procs[q] = lspServer.procs[q]]_vars

\* the part that holds: a timer that runs while no child is held (no start()
\* since the cleanup() that armed it, or that child released in turn) signals
\* nothing
C37_TimerIdleWithoutChild ==
    [][\A p \in DOMAIN lspServer.procs :
          (TimerOf(p) /\ lspServer.childProcess = 0) => lspServer'.procs = lspServer.procs]_vars

(***************************************************************************)
(* C38: in every reachable state, also when stop(), an exit of the child   *)
(* or a restart happens while initialize() awaits its response, the        *)
(* gateway is marked initialized only if the child process and the         *)
(* connection it holds are the ones that completed the initialize          *)
(* handshake; the flag is never true while the connection is absent.       *)
(***************************************************************************)
\* the initialize request was written to connection c and its result has
\* been received from it
HandshakeOn(c) ==
    /\ lspServer.conns[c].answered
    /\ \E k \in 1..Len(lspServer.conns[c].sent) :
          lspServer.conns[c].sent[k] = [kind |-> "request", method |-> "initialize"]

\* C38: the flag is set only while a connection is held, and that connection
\* is one on which the initialize handshake took place
C38_InitializedOnlyOnHandshakeConnection ==
    lspServer.isInitialized =>
        /\ lspServer.connection # 0
        /\ lspServer.childProcess # 0
        /\ HandshakeOn(lspServer.connection)

\* the second half of C38 alone: the flag is never set while the connection
\* or the child process is absent
C38_InitializedNeedsConnection ==
    lspServer.isInitialized =>
        lspServer.connection # 0 /\ lspServer.childProcess # 0

\* without a release of the child during the await, the flag stands for a
\* handshake on the held connection: a gateway whose first child is still
\* the one it holds is initialized only after that child's handshake
C38_FirstChildInitializedByItsHandshake ==
    (lspServer.isInitialized /\ lspServer.connection = 1) => HandshakeOn(1)

(***************************************************************************)
(* C39: the selection-range response contains at most one entry per        *)
(* requested position; a position whose sub-request fails, returns an      *)
(* empty list, or for which no backend applies contributes no entry (no    *)
(* placeholder), so the response has exactly one entry per requested       *)
(* position only when every sub-request returns a non-empty result.        *)
(***************************************************************************)
\* onSelectionRanges has returned
SelectionReturned ==
    /\ request.pc = "done"
    /\ request.method = "selectionRange"

\* the sub-requests that were answered with a list that has items
NonEmptyAnswers(req) ==
    {i \in 1..Len(req.settled) : ListItems(req.settled[i].outcome) # <<>>}

\* the entries of the response
Entries(req) == req.response.value.items

\* C39: the response is a list with one entry for every sub-request that was
\* answered with a non-empty list - the first range of that answer - and no
\* entry for anything else, so never more entries than positions, and as many
\* as positions only if every position had a sub-request and each of them was
\* answered with a non-empty list
C39_NoPlaceholderEntries ==
    SelectionReturned =>
        /\ request.response.status = "returned"
        /\ IsArray(request.response.value)
        /\ Len(request.settled) <= Len(request.positions)
        /\ Len(Entries(request)) = Cardinality(NonEmptyAnswers(request))
        /\ Len(Entries(request)) <= Len(request.positions)
        /\ \A k \in 1..Len(Entries(request)) :
              \E i \in NonEmptyAnswers(request) :
                 Entries(request)[k] = ListItems(request.settled[i].outcome)[1]
        /\ Len(Entries(request)) = Len(request.positions) =>
              /\ Len(request.settled) = Len(request.positions)
              /\ NonEmptyAnswers(request) = 1..Len(request.settled)

\* two positions on a.svelte: the first sub-request failed and the second
\* was answered with two ranges; the response has one entry, for the second
\* position
C39_Witness ==
    /\ SelectionReturned
    /\ request.uri = SvelteUri
    /\ Len(request.positions) = 2
    /\ request.settled = <<Settlement(Svelte, Reject),
                           Settlement(Svelte, Arr(<<Item(1), Item(2)>>))>>
    /\ request.response = Returned(Arr(<<Item(1)>>))

\* two positions on a document no backend applies to: no sub-request, and the
\* response is empty
C39_NoBackendNoEntry ==
    (SelectionReturned /\ request.parsed # NullRef
       /\ ApplicableBackends(request.uri) = {}) =>
        request.settled = <<>> /\ Entries(request) = <<>>

====
